---- MODULE Spec2Model ----
(***************************************************************************)
(* A model of the NES picture processing unit NESPPU (src/nes/ppu.py):     *)
(* the register port (read_register / write_register), the tick port      *)
(* (run_cycles) and the state they share.                                  *)
(***************************************************************************)
EXTENDS Integers, Sequences, FiniteSets, TLC

(***************************************************************************)
(* Bit helpers (src/nes/bitwise.py and Python's & on non-negative ints).   *)
(***************************************************************************)
RECURSIVE BitAnd(_, _)
BitAnd(a, b) ==
    IF a = 0 \/ b = 0 THEN 0
    ELSE (IF a % 2 = 1 /\ b % 2 = 1 THEN 1 ELSE 0) + 2 * BitAnd(a \div 2, b \div 2)

bit_high(value, bit) == BitAnd(value, 2 ^ bit) > 0

bit_low(value, bit) == BitAnd(value, 2 ^ bit) = 0

(***************************************************************************)
(* Class constants of NESPPU.                                              *)
(***************************************************************************)
OAM_SIZE_BYTES == 256

PPU_CTRL == 0
PPU_MASK == 1
PPU_STATUS == 2
OAM_ADDR == 3
OAM_DATA == 4
PPU_SCROLL == 5
PPU_ADDR == 6
PPU_DATA == 7

VBLANK_MASK == 128
SPRITE0_HIT_MASK == 64
SPRITE_OVERFLOW_MASK == 32

SPRITE_SIZE_MASK == 32
BKG_PATTERN_TABLE_MASK == 16
SPRITE_PATTERN_TABLE_MASK == 8
VRAM_INCREMENT_MASK == 4
NAMETABLE_MASK == 3

RENDERING_ENABLED_MASK == 24
RENDER_SPRITES_MASK == 16
RENDER_BACKGROUND_MASK == 8

RENDER_LEFT8_BKG_BIT == 1
RENDER_LEFT8_SPRITES_BIT == 2

PPU_SCROLL_X == 0
PPU_SCROLL_Y == 1

PIXELS_PER_LINE == 341
SCREEN_TILE_ROWS == 30
SCREEN_TILE_COLS == 32
TILE_HEIGHT_PX == 8
TILE_WIDTH_PX == 8
PATTERN_SIZE_BYTES == 16

\* the literal 0x00011111 of read_register (a hexadecimal literal)
STATUS_LATCH_MASK == 69905

\* the literal of the warm-up test in write_register
CTRL_WARMUP_CYCLES == 29658

DEFAULT_NES_PALETTE == <<
    << 82,  82,  82>>, <<  1,  26,  81>>, << 15,  15, 101>>, << 35,   6,  99>>,
    << 54,   3,  75>>, << 64,   4,  38>>, << 63,   9,   4>>, << 50,  19,   0>>,
    << 31,  32,   0>>, << 11,  42,   0>>, <<  0,  47,   0>>, <<  0,  46,  10>>,
    <<  0,  38,  45>>, <<  0,   0,   0>>, <<  0,   0,   0>>, <<  0,   0,   0>>,
    <<160, 160, 160>>, << 30,  74, 157>>, << 56,  55, 188>>, << 88,  40, 184>>,
    <<117,  33, 148>>, <<132,  35,  92>>, <<130,  46,  36>>, <<111,  63,   0>>,
    << 81,  82,   0>>, << 49,  99,   0>>, << 26, 107,   5>>, << 14, 105,  46>>,
    << 16,  92, 104>>, <<  0,   0,   0>>, <<  0,   0,   0>>, <<  0,   0,   0>>,
    <<254, 255, 255>>, <<105, 158, 252>>, <<137, 135, 255>>, <<174, 118, 255>>,
    <<206, 109, 241>>, <<224, 112, 178>>, <<222, 124, 112>>, <<200, 145,  62>>,
    <<166, 167,  37>>, <<129, 186,  40>>, << 99, 196,  70>>, << 84, 193, 125>>,
    << 86, 179, 192>>, << 60,  60,  60>>, <<  0,   0,   0>>, <<  0,   0,   0>>,
    <<254, 255, 255>>, <<190, 214, 253>>, <<204, 204, 255>>, <<221, 196, 255>>,
    <<234, 192, 249>>, <<242, 193, 223>>, <<241, 199, 194>>, <<232, 208, 170>>,
    <<217, 218, 157>>, <<201, 226, 158>>, <<188, 230, 174>>, <<180, 229, 199>>,
    <<181, 223, 228>>, <<169, 169, 169>>, <<  0,   0,   0>>, <<  0,   0,   0>> >>

\* Python's None
None == <<>>

(***************************************************************************)
(* The VRAM view (nes/memory.py, NESVRAM): a flat 8-bit memory, zero where *)
(* nothing was written.                                                    *)
(***************************************************************************)
PALETTE_START == 16128
NAMETABLE_START == 8192
NAMETABLE_LENGTH_BYTES == 1024
ATTRIBUTE_TABLE_OFFSET == 960

vram_read(mem, addr) == IF addr \in DOMAIN mem THEN mem[addr] ELSE 0

vram_write(mem, addr, value) ==
    [a \in (DOMAIN mem) \cup {addr} |-> IF a = addr THEN value ELSE mem[a]]

(***************************************************************************)
(* NESPPU.__init__: the engine after construction.                         *)
(***************************************************************************)
RECURSIVE NonPaletteFrom(_)
NonPaletteFrom(g) ==
    IF \E i \in 1..Len(DEFAULT_NES_PALETTE) : DEFAULT_NES_PALETTE[i] = <<g, g, g>>
    THEN NonPaletteFrom(g + 1)
    ELSE <<g, g, g>>

get_non_palette_color == NonPaletteFrom(1)

EmptyPaletteCache == [s \in 0..1 |-> [i \in 0..3 |-> None]]

ResetPPU ==
    [ ppu_ctrl |-> 0,
      ppu_mask |-> 0,
      oam_addr |-> 0,
      oam_addr_held |-> 0,
      ppu_scroll |-> [i \in 0..1 |-> 0],
      ppu_addr |-> 0,
      ppu_byte_latch |-> 0,
      ppu_data_buffer |-> 0,
      io_latch |-> 0,
      palette |-> [i \in 0..1 |->
                     IF i = 0 THEN SubSeq(DEFAULT_NES_PALETTE, 1, 3)
                              ELSE SubSeq(DEFAULT_NES_PALETTE, 4, 6)],
      pattern_lo |-> [i \in 0..1 |-> 0],
      pattern_hi |-> [i \in 0..1 |-> 0],
      sprite_pattern |-> [i \in 0..7 |-> [x \in 0..7 |-> None]],
      sprite_bkg_priority |-> [i \in 0..7 |-> FALSE],
      has_active_sprites |-> FALSE,
      active_sprites |-> <<>>,
      line |-> 0,
      pixel |-> 0,
      row |-> 0,
      col |-> 0,
      tN |-> 0,
      tX |-> 0,
      tY |-> 0,
      in_vblank |-> FALSE,
      sprite_zero_hit |-> FALSE,
      sprite_overflow |-> FALSE,
      cycles_since_reset |-> 0,
      cycles_since_frame |-> 0,
      frames_since_reset |-> 0,
      vram |-> <<>>,
      oam |-> [a \in 0..(OAM_SIZE_BYTES - 1) |-> 0],
      transparent_color |-> get_non_palette_color,
      palette_cache |-> EmptyPaletteCache ]

invalidate_palette_cache(p) == [p EXCEPT !.palette_cache = EmptyPaletteCache]

(***************************************************************************)
(* The register port.                                                      *)
(***************************************************************************)
BoolInt(b) == IF b THEN 1 ELSE 0

ppu_status(p) ==
    VBLANK_MASK * BoolInt(p.in_vblank)
    + SPRITE0_HIT_MASK * BoolInt(p.sprite_zero_hit)
    + SPRITE_OVERFLOW_MASK * BoolInt(p.sprite_overflow)

\* the byte a STATUS read puts on the bus
StatusByte(p) == ppu_status(p) + BitAnd(STATUS_LATCH_MASK, p.io_latch)

\* an increment that is 1 whatever CTRL holds
VramStepAlwaysOne(p) == 1

VramStep(p) == IF BitAnd(p.ppu_ctrl, VRAM_INCREMENT_MASK) = 0 THEN 1 ELSE 32

increment_vram_address(p) == [p EXCEPT !.ppu_addr = p.ppu_addr + VramStep(p)]

\* a STATUS read that also clears sprite_zero_hit
ReadStatusClearsHit(p) ==
    [ p |-> [p EXCEPT !.ppu_byte_latch = 0, !.in_vblank = FALSE,
                      !.sprite_zero_hit = FALSE, !.io_latch = StatusByte(p)],
      ret |-> StatusByte(p) ]

\* a STATUS read that leaves the write toggle as it is
ReadStatusKeepsToggle(p) ==
    [ p |-> [p EXCEPT !.in_vblank = FALSE, !.io_latch = StatusByte(p)],
      ret |-> StatusByte(p) ]

\* read_register returns the byte read (ret) and the engine afterwards (p)
ReadStatus(p) ==
    LET v == StatusByte(p)
    IN  [ p |-> [p EXCEPT !.ppu_byte_latch = 0, !.in_vblank = FALSE, !.io_latch = v],
          ret |-> v ]

ReadOamData(p) ==
    LET v == p.oam[p.oam_addr]
    IN  [ p |-> [p EXCEPT !.io_latch = v], ret |-> v ]

\* a DATA read that refills the buffer from the address after the increment
ReadDataRefillsAfterIncrement(p) ==
    LET buffered == p.ppu_addr < PALETTE_START
        v == IF buffered THEN p.ppu_data_buffer ELSE vram_read(p.vram, p.ppu_addr)
        q == increment_vram_address(p)
        buf == IF buffered THEN vram_read(p.vram, q.ppu_addr)
                           ELSE vram_read(p.vram, p.ppu_addr - 4096)
    IN  [ p |-> [q EXCEPT !.ppu_data_buffer = buf, !.io_latch = buf], ret |-> v ]

\* a DATA read that returns the byte at ppu_addr without buffering it
ReadDataUnbuffered(p) ==
    LET v == vram_read(p.vram, p.ppu_addr)
        q == increment_vram_address([p EXCEPT !.ppu_data_buffer = v])
    IN  [ p |-> [q EXCEPT !.io_latch = v], ret |-> v ]

ReadData(p) ==
    LET buffered == p.ppu_addr < PALETTE_START
        v == IF buffered THEN p.ppu_data_buffer ELSE vram_read(p.vram, p.ppu_addr)
        buf == IF buffered THEN vram_read(p.vram, p.ppu_addr)
                           ELSE vram_read(p.vram, p.ppu_addr - 4096)
        q == increment_vram_address([p EXCEPT !.ppu_data_buffer = buf])
    IN  [ p |-> [q EXCEPT !.io_latch = q.ppu_data_buffer], ret |-> v ]

read_register(p, register) ==
    CASE register = PPU_STATUS -> ReadStatus(p)
      [] register = OAM_DATA -> ReadOamData(p)
      [] register = PPU_DATA -> ReadData(p)
      [] OTHER -> [ p |-> p, ret |-> p.io_latch ]

\* a CTRL write that makes no warm-up test
CtrlWriteNeverIgnored(p) == FALSE

\* the warm-up test of a CTRL write
CtrlWriteIgnored(p) == p.cycles_since_reset < CTRL_WARMUP_CYCLES

\* an NMI on the level of the written bit 7, whatever the stored bit 7 is
CtrlTriggersNmiOnLevel(p, value) ==
    /\ p.in_vblank
    /\ BitAnd(value, VBLANK_MASK) > 0

\* trigger_nmi of a CTRL write
CtrlTriggersNmi(p, value) ==
    /\ p.in_vblank
    /\ BitAnd(value, VBLANK_MASK) > 0
    /\ BitAnd(p.ppu_ctrl, VBLANK_MASK) = 0

\* write_register returns the engine afterwards (p) and the number of
\* raise_nmi calls made on the interrupt listener (nmi)
WriteCtrl(p, value) ==
    IF CtrlWriteIgnored(p) THEN [ p |-> p, nmi |-> 0 ]
    ELSE [ p |-> [p EXCEPT !.ppu_ctrl = value % 256, !.tN = value % 4],
           nmi |-> IF CtrlTriggersNmi(p, value) THEN 1 ELSE 0 ]

\* an OAMDATA write that lets oam_addr run past 255
WriteOamDataNoWrap(p, value) ==
    [p EXCEPT !.oam = [p.oam EXCEPT ![p.oam_addr] = value],
              !.oam_addr = p.oam_addr + 1]

WriteOamData(p, value) ==
    [p EXCEPT !.oam = [p.oam EXCEPT ![p.oam_addr] = value],
              !.oam_addr = (p.oam_addr + 1) % 256]

\* a SCROLL write that leaves the write toggle as it is
WriteScrollKeepsToggle(p, value) ==
    [p EXCEPT !.ppu_scroll = [p.ppu_scroll EXCEPT ![p.ppu_byte_latch] = value],
              !.tX = IF p.ppu_byte_latch = 0 THEN BitAnd(value, 248) \div 8 ELSE p.tX,
              !.tY = IF p.ppu_byte_latch = 0 THEN p.tY ELSE BitAnd(value, 248) \div 8]

WriteScroll(p, value) ==
    [p EXCEPT !.ppu_scroll = [p.ppu_scroll EXCEPT ![p.ppu_byte_latch] = value],
              !.tX = IF p.ppu_byte_latch = 0 THEN BitAnd(value, 248) \div 8 ELSE p.tX,
              !.tY = IF p.ppu_byte_latch = 0 THEN p.tY ELSE BitAnd(value, 248) \div 8,
              !.ppu_byte_latch = 1 - p.ppu_byte_latch]

WriteAddr(p, value) ==
    IF p.ppu_byte_latch = 0
    THEN [p EXCEPT !.ppu_addr = BitAnd(p.ppu_addr, 255) + value * 256,
                   !.tY = BitAnd(p.tY, 16) + BitAnd(value, 15),
                   !.ppu_byte_latch = 1 - p.ppu_byte_latch]
    ELSE [p EXCEPT !.ppu_addr = BitAnd(p.ppu_addr, 65280) + value,
                   !.tY = BitAnd(p.tY, 7) + BitAnd(value, 3),
                   !.tN = BitAnd(value, 12) \div 4,
                   !.ppu_byte_latch = 1 - p.ppu_byte_latch]

\* a DATA write that never empties the palette cache
WriteDataKeepsCache(p, value) ==
    increment_vram_address([p EXCEPT !.vram = vram_write(p.vram, p.ppu_addr, value)])

WriteData(p, value) ==
    LET q == increment_vram_address(
                 [p EXCEPT !.vram = vram_write(p.vram, p.ppu_addr, value)])
    IN  IF q.ppu_addr >= PALETTE_START THEN invalidate_palette_cache(q) ELSE q

\* a write that leaves the bus latch as it is
LatchWriteSkipped(p, value) == p

\* the first statement of write_register
LatchWrite(p, value) == [p EXCEPT !.io_latch = value % 256]

write_register(p, register, value) ==
    LET q == LatchWrite(p, value)
    IN  CASE register = PPU_CTRL -> WriteCtrl(q, value)
          [] register = PPU_MASK -> [ p |-> [q EXCEPT !.ppu_mask = value % 256], nmi |-> 0 ]
          [] register = PPU_STATUS -> [ p |-> q, nmi |-> 0 ]
          [] register = OAM_ADDR -> [ p |-> [q EXCEPT !.oam_addr = value % 256], nmi |-> 0 ]
          [] register = OAM_DATA -> [ p |-> WriteOamData(q, value), nmi |-> 0 ]
          [] register = PPU_SCROLL -> [ p |-> WriteScroll(q, value), nmi |-> 0 ]
          [] register = PPU_ADDR -> [ p |-> WriteAddr(q, value), nmi |-> 0 ]
          [] register = PPU_DATA -> [ p |-> WriteData(q, value), nmi |-> 0 ]

(***************************************************************************)
(* Palette decode and the background pipeline.                             *)
(***************************************************************************)
\* decode_palette returns the palette (palette) and the engine with the
\* cache filled (p); is_sprite is 0 or 1 as the cache index
decode_palette(p, palette_id, is_sprite) ==
    IF p.palette_cache[is_sprite][palette_id] # None
    THEN [ p |-> p, palette |-> p.palette_cache[is_sprite][palette_id] ]
    ELSE LET palette_address == PALETTE_START + 16 * is_sprite + 4 * palette_id
             palette == [i \in 1..4 |->
                 DEFAULT_NES_PALETTE[
                     BitAnd(vram_read(p.vram, palette_address + i - 1), 63) + 1]]
         IN  [ p |-> [p EXCEPT !.palette_cache[is_sprite][palette_id] = palette],
               palette |-> palette ]

fill_bkg_latches(p, line, col) ==
    LET row == line \div 8
        nx0 == BoolInt(bit_high(p.tN, 0))
        ny0 == BoolInt(bit_high(p.tN, 1))
        total_row == (row + ny0 * SCREEN_TILE_ROWS
                      + BitAnd(p.ppu_scroll[PPU_SCROLL_Y], 248) \div 8)
                     % (2 * SCREEN_TILE_ROWS)
        total_col == (col + nx0 * SCREEN_TILE_COLS
                      + BitAnd(p.ppu_scroll[PPU_SCROLL_X], 248) \div 8)
                     % (2 * SCREEN_TILE_COLS)
        ny == total_row \div SCREEN_TILE_ROWS
        nx == total_col \div SCREEN_TILE_COLS
        tile_row == total_row - ny * SCREEN_TILE_ROWS
        tile_col == total_col - nx * SCREEN_TILE_COLS
        ntbl_base == NAMETABLE_START + (ny * 2 + nx) * NAMETABLE_LENGTH_BYTES
        tile_addr == ntbl_base + tile_row * SCREEN_TILE_COLS + tile_col
        tile_index == vram_read(p.vram, tile_addr)
        table_base == BoolInt(BitAnd(p.ppu_ctrl, BKG_PATTERN_TABLE_MASK) > 0) * 4096
        tile_base == table_base + tile_index * PATTERN_SIZE_BYTES
        attribute_byte == vram_read(p.vram, ntbl_base + ATTRIBUTE_TABLE_OFFSET
                                            + ((tile_row \div 4) * 8 + tile_col \div 4))
        shift == 4 * ((tile_row \div 2) % 2) + 2 * ((tile_col \div 2) % 2)
        palette_id == BitAnd(attribute_byte, 3 * 2 ^ shift) \div 2 ^ shift
        d == decode_palette(p, palette_id, 0)
        tile_line == line - 8 * row
    IN  [d.p EXCEPT !.palette[1] = d.palette,
                    !.pattern_lo[1] = vram_read(p.vram, tile_base + tile_line),
                    !.pattern_hi[1] = vram_read(p.vram, tile_base + tile_line + 8)]

shift_bkg_latches(p) ==
    [p EXCEPT !.palette[0] = p.palette[1],
              !.pattern_lo[0] = p.pattern_lo[1],
              !.pattern_hi[0] = p.pattern_hi[1]]

get_bkg_pixel(p) ==
    IF \/ BitAnd(p.ppu_mask, RENDER_BACKGROUND_MASK) = 0
       \/ (p.pixel - 1 < 8 /\ bit_low(p.ppu_mask, RENDER_LEFT8_BKG_BIT))
    THEN p.transparent_color
    ELSE LET mask == 2 ^ (7 - ((p.pixel - 1) % 8))
             v == BoolInt(BitAnd(p.pattern_lo[0], mask) > 0)
                  + BoolInt(BitAnd(p.pattern_hi[0], mask) > 0) * 2
         IN  IF v > 0 THEN p.palette[0][v + 1] ELSE p.transparent_color

(***************************************************************************)
(* The sprite pipeline.                                                    *)
(***************************************************************************)
SpriteHeight(p) == IF BitAnd(p.ppu_ctrl, SPRITE_SIZE_MASK) > 0 THEN 16 ELSE 8

\* the scan of _prefetch_active_sprites from entry n on: the OAM addresses
\* found so far are in found; the scan stops at the ninth
RECURSIVE ScanSprites(_, _, _, _)
ScanSprites(p, line, n, found) ==
    IF n >= 64 \/ Len(found) >= 9 THEN found
    ELSE LET addr == (p.oam_addr_held + n * 4) % OAM_SIZE_BYTES
             sprite_y == p.oam[addr]
         IN  IF sprite_y <= line /\ line < sprite_y + SpriteHeight(p)
             THEN ScanSprites(p, line, n + 1, Append(found, addr))
             ELSE ScanSprites(p, line, n + 1, found)

\* one iteration of the loop of _fill_sprite_latches, for slot i (from 0)
FillSpriteLatch(p, i, address, sprite_line, double_sprites) ==
    LET table_base == BoolInt(BitAnd(p.ppu_ctrl, SPRITE_PATTERN_TABLE_MASK) > 0) * 4096
        attribs == p.oam[BitAnd(address + 2, 255)]
        palette_ix == BitAnd(attribs, 3)
        d == decode_palette(p, palette_ix, 1)
        flip_v == bit_high(attribs, 7)
        flip_h == bit_high(attribs, 6)
        raw_tile == p.oam[BitAnd(address + 1, 255)]
        fline == IF ~double_sprites
                 THEN (IF ~flip_v THEN sprite_line ELSE 7 - sprite_line)
                 ELSE (IF ~flip_v THEN sprite_line ELSE 15 - sprite_line)
        tile_ix == IF ~double_sprites THEN raw_tile
                   ELSE BitAnd(raw_tile, 254) + (IF fline >= 8 THEN 1 ELSE 0)
        line == IF double_sprites /\ fline >= 8 THEN fline - 8 ELSE fline
        tile_base == table_base + tile_ix * PATTERN_SIZE_BYTES
        sprite_pattern_lo == vram_read(p.vram, tile_base + line)
        sprite_pattern_hi == vram_read(p.vram, tile_base + 8 + line)
        \* slot position k holds the colour computed for x with
        \* (x if flip_h else 7 - x) = k
        colour(k) ==
            LET x == IF flip_h THEN k ELSE 7 - k
                c == BoolInt(bit_high(sprite_pattern_hi, x)) * 2
                     + BoolInt(bit_high(sprite_pattern_lo, x))
            IN  IF c # 0 THEN d.palette[c + 1] ELSE None
    IN  [d.p EXCEPT !.sprite_bkg_priority[i] = bit_high(attribs, 5),
                    !.sprite_pattern[i] = [k \in 0..7 |-> colour(k)]]

RECURSIVE fill_sprite_latches(_, _, _, _, _)
fill_sprite_latches(p, i, active_sprite_addrs, sprite_line, double_sprites) ==
    IF i >= Len(active_sprite_addrs) THEN p
    ELSE fill_sprite_latches(
             FillSpriteLatch(p, i, active_sprite_addrs[i + 1], sprite_line[i + 1],
                             double_sprites),
             i + 1, active_sprite_addrs, sprite_line, double_sprites)

\* a sprite evaluation that never sets sprite_overflow
PrefetchWithoutOverflow(p, line) ==
    LET double_sprites == BitAnd(p.ppu_ctrl, SPRITE_SIZE_MASK) > 0
        found == ScanSprites(p, line, 0, <<>>)
        active == IF Len(found) > 8 THEN SubSeq(found, 1, 8) ELSE found
        sprite_line == [k \in 1..Len(active) |-> line - p.oam[active[k]]]
        q == [p EXCEPT !.has_active_sprites = TRUE, !.active_sprites = active]
    IN  fill_sprite_latches(q, 0, active, sprite_line, double_sprites)

prefetch_active_sprites(p, line) ==
    LET double_sprites == BitAnd(p.ppu_ctrl, SPRITE_SIZE_MASK) > 0
        found == ScanSprites(p, line, 0, <<>>)
        active == IF Len(found) > 8 THEN SubSeq(found, 1, 8) ELSE found
        sprite_line == [k \in 1..Len(active) |-> line - p.oam[active[k]]]
        q == [p EXCEPT !.has_active_sprites = TRUE,
                       !.active_sprites = active,
                       !.sprite_overflow = IF Len(found) > 8 THEN TRUE
                                           ELSE p.sprite_overflow]
    IN  fill_sprite_latches(q, 0, active, sprite_line, double_sprites)

\* the loop of _overlay_sprites over the slots i, i-1, .., 0; acc holds
\* sprite_c_out, top_sprite, s0_visible and exc (an IndexError was raised)
RECURSIVE OverlayLoop(_, _, _)
OverlayLoop(p, i, acc) ==
    IF i < 0 \/ acc.exc THEN acc
    ELSE LET sprite_addr == p.active_sprites[i + 1]
         IN  IF sprite_addr + 3 >= OAM_SIZE_BYTES
             THEN [acc EXCEPT !.exc = TRUE]
             ELSE LET sprite_x == p.oam[sprite_addr + 3]
                      covers == sprite_x <= p.pixel - 1 /\ p.pixel - 1 < sprite_x + 8
                      c == IF covers THEN p.sprite_pattern[i][p.pixel - 1 - sprite_x]
                                     ELSE None
                  IN  IF covers /\ c # None
                      THEN OverlayLoop(p, i - 1,
                               [ sprite_c_out |-> c, top_sprite |-> i,
                                 s0_visible |-> acc.s0_visible \/ sprite_addr = 0,
                                 exc |-> FALSE ])
                      ELSE OverlayLoop(p, i - 1, acc)

\* an overlay that puts the top sprite in front whatever its priority bit
OverlayIgnoresPriority(p, bkg_pixel) ==
    IF \/ BitAnd(p.ppu_mask, RENDER_SPRITES_MASK) = 0
       \/ (p.pixel - 1 < 8 /\ bit_low(p.ppu_mask, RENDER_LEFT8_SPRITES_BIT))
    THEN [ p |-> p, out |-> bkg_pixel, exc |-> FALSE ]
    ELSE IF ~p.has_active_sprites
    THEN [ p |-> p, out |-> None, exc |-> TRUE ]
    ELSE LET r == OverlayLoop(p, Len(p.active_sprites) - 1,
                      [ sprite_c_out |-> None, top_sprite |-> -1,
                        s0_visible |-> FALSE, exc |-> FALSE ])
             q == IF r.s0_visible /\ bkg_pixel # p.transparent_color
                  THEN [p EXCEPT !.sprite_zero_hit = TRUE] ELSE p
             c_out == IF r.sprite_c_out # None THEN r.sprite_c_out ELSE bkg_pixel
             d == decode_palette(q, 0, 0)
         IN  IF r.exc THEN [ p |-> p, out |-> None, exc |-> TRUE ]
             ELSE IF c_out # p.transparent_color
             THEN [ p |-> q, out |-> c_out, exc |-> FALSE ]
             ELSE [ p |-> d.p, out |-> d.palette[1], exc |-> FALSE ]

\* _overlay_sprites returns the colour (out), the engine afterwards (p) and
\* whether an exception left the method (exc)
overlay_sprites(p, bkg_pixel) ==
    IF \/ BitAnd(p.ppu_mask, RENDER_SPRITES_MASK) = 0
       \/ (p.pixel - 1 < 8 /\ bit_low(p.ppu_mask, RENDER_LEFT8_SPRITES_BIT))
    THEN [ p |-> p, out |-> bkg_pixel, exc |-> FALSE ]
    ELSE IF ~p.has_active_sprites
    THEN [ p |-> p, out |-> None, exc |-> TRUE ]
    ELSE LET r == OverlayLoop(p, Len(p.active_sprites) - 1,
                      [ sprite_c_out |-> None, top_sprite |-> -1,
                        s0_visible |-> FALSE, exc |-> FALSE ])
             q == IF r.s0_visible /\ bkg_pixel # p.transparent_color
                  THEN [p EXCEPT !.sprite_zero_hit = TRUE] ELSE p
             c_out == IF /\ r.sprite_c_out # None
                         /\ (\/ ~p.sprite_bkg_priority[r.top_sprite]
                             \/ bkg_pixel = p.transparent_color)
                      THEN r.sprite_c_out ELSE bkg_pixel
             d == decode_palette(q, 0, 0)
         IN  IF r.exc THEN [ p |-> p, out |-> None, exc |-> TRUE ]
             ELSE IF c_out # p.transparent_color
             THEN [ p |-> q, out |-> c_out, exc |-> FALSE ]
             ELSE [ p |-> d.p, out |-> d.palette[1], exc |-> FALSE ]

(***************************************************************************)
(* The tick port: run_cycles.                                              *)
(***************************************************************************)
RenderingEnabled(p) == BitAnd(p.ppu_mask, RENDERING_ENABLED_MASK) > 0

\* the visible-scanline branch of one loop iteration: the engine afterwards
\* (p), the pixel handed to screen.write_at (emit, None when no pixel is
\* written) and whether an exception left the iteration (exc)
EmitPixel(p, q, o) ==
    IF o.exc THEN [ p |-> q, emit |-> None, exc |-> TRUE ]
    ELSE [ p |-> o.p,
           emit |-> IF o.out # p.transparent_color
                    THEN <<p.pixel - 1, p.line, o.out>> ELSE None,
           exc |-> FALSE ]

\* a dot 1..256 of a visible line once the latches are as q holds them
RenderPixel(p, q) == EmitPixel(p, q, overlay_sprites(q, get_bkg_pixel(q)))

\* a visible-scanline branch that fetches the next tile before it shifts
VisibleDotFetchesFirst(p) ==
    IF ~(p.line <= 239 /\ RenderingEnabled(p))
    THEN [ p |-> p, emit |-> None, exc |-> FALSE ]
    ELSE IF 0 < p.pixel /\ p.pixel <= 256
    THEN RenderPixel(p, IF (p.pixel - 1) % 8 = 0 /\ p.pixel > 1
                        THEN shift_bkg_latches(fill_bkg_latches(p, p.line, p.col + 1))
                        ELSE p)
    ELSE IF p.pixel = 257
    THEN [ p |-> prefetch_active_sprites(p, p.line + 1), emit |-> None, exc |-> FALSE ]
    ELSE IF 321 <= p.pixel /\ p.pixel <= 336 /\ p.pixel % 8 = 1
    THEN [ p |-> fill_bkg_latches(shift_bkg_latches(p), p.line + 1,
                                  (p.pixel - 321) \div 8),
           emit |-> None, exc |-> FALSE ]
    ELSE [ p |-> p, emit |-> None, exc |-> FALSE ]

VisibleDot(p) ==
    IF ~(p.line <= 239 /\ RenderingEnabled(p))
    THEN [ p |-> p, emit |-> None, exc |-> FALSE ]
    ELSE IF 0 < p.pixel /\ p.pixel <= 256
    THEN RenderPixel(p, IF (p.pixel - 1) % 8 = 0 /\ p.pixel > 1
                        THEN fill_bkg_latches(shift_bkg_latches(p), p.line, p.col + 1)
                        ELSE p)
    ELSE IF p.pixel = 257
    THEN [ p |-> prefetch_active_sprites(p, p.line + 1), emit |-> None, exc |-> FALSE ]
    ELSE IF 321 <= p.pixel /\ p.pixel <= 336 /\ p.pixel % 8 = 1
    THEN [ p |-> fill_bkg_latches(shift_bkg_latches(p), p.line + 1,
                                  (p.pixel - 321) \div 8),
           emit |-> None, exc |-> FALSE ]
    ELSE [ p |-> p, emit |-> None, exc |-> FALSE ]

\* the dot of line 261 at which the frame ends
LastPixelOfFrame(p) == PIXELS_PER_LINE - 1 - (p.frames_since_reset % 2)

\* the dot at which vblank starts, and the NMI test made there
AtVblankStart(p) == p.line = 241 /\ p.pixel = 1

VblankNmiEnabled(p) == BitAnd(p.ppu_ctrl, VBLANK_MASK) > 0

\* the pre-render scanline (line 261)
PreRenderDot(p) ==
    IF p.pixel = 1
    THEN [ p |-> [p EXCEPT !.in_vblank = FALSE, !.sprite_zero_hit = FALSE,
                           !.sprite_overflow = FALSE],
           nmi |-> 0, ended |-> FALSE ]
    ELSE IF p.pixel = 257
    THEN [ p |-> prefetch_active_sprites(p, 0), nmi |-> 0, ended |-> FALSE ]
    ELSE IF 321 <= p.pixel /\ p.pixel <= 336
    THEN [ p |-> IF p.pixel % 8 = 1
                 THEN fill_bkg_latches(shift_bkg_latches(p), 0, (p.pixel - 321) \div 8)
                 ELSE p,
           nmi |-> 0, ended |-> FALSE ]
    ELSE [ p |-> p, nmi |-> 0, ended |-> p.pixel = LastPixelOfFrame(p) ]

\* a chain that holds the OAM address at dot 65 of every line
PhaseDotHoldsEveryLine(p) ==
    IF p.pixel = 65
    THEN [ p |-> [p EXCEPT !.oam_addr_held = p.oam_addr], nmi |-> 0, ended |-> FALSE ]
    ELSE IF p.line = 240 /\ p.pixel = 0
    THEN [ p |-> p, nmi |-> 0, ended |-> FALSE ]
    ELSE IF AtVblankStart(p)
    THEN [ p |-> [p EXCEPT !.in_vblank = TRUE],
           nmi |-> IF VblankNmiEnabled(p) THEN 1 ELSE 0, ended |-> FALSE ]
    ELSE IF p.line <= 260
    THEN [ p |-> p, nmi |-> 0, ended |-> FALSE ]
    ELSE IF p.line = 261
    THEN PreRenderDot(p)
    ELSE [ p |-> p, nmi |-> 0, ended |-> FALSE ]

\* the if/elif chain on (line, pixel) of one loop iteration: the engine
\* afterwards (p), the raise_nmi calls made (nmi) and whether this dot sets
\* frame_ended (ended)
PhaseDot(p) ==
    IF p.line = 0 /\ p.pixel = 65
    THEN [ p |-> [p EXCEPT !.oam_addr_held = p.oam_addr], nmi |-> 0, ended |-> FALSE ]
    ELSE IF p.line = 240 /\ p.pixel = 0
    THEN [ p |-> p, nmi |-> 0, ended |-> FALSE ]
    ELSE IF AtVblankStart(p)
    THEN [ p |-> [p EXCEPT !.in_vblank = TRUE],
           nmi |-> IF VblankNmiEnabled(p) THEN 1 ELSE 0, ended |-> FALSE ]
    ELSE IF p.line <= 260
    THEN [ p |-> p, nmi |-> 0, ended |-> FALSE ]
    ELSE IF p.line = 261
    THEN PreRenderDot(p)
    ELSE [ p |-> p, nmi |-> 0, ended |-> FALSE ]

\* counter updates that wrap the line one dot late
AdvanceDotLateWrap(p) ==
    [p EXCEPT !.cycles_since_reset = p.cycles_since_reset + 1,
              !.cycles_since_frame = p.cycles_since_frame + 1,
              !.pixel = IF p.pixel + 1 > PIXELS_PER_LINE THEN 0 ELSE p.pixel + 1,
              !.col = IF p.pixel + 1 > PIXELS_PER_LINE THEN 0 ELSE p.col,
              !.line = IF p.pixel + 1 > PIXELS_PER_LINE THEN p.line + 1 ELSE p.line]

\* counter updates that leave cycles_since_frame alone when the line wraps
AdvanceDotSkipsWrap(p) ==
    LET pixel1 == p.pixel + 1
        col1 == IF pixel1 > 1 /\ pixel1 % 8 = 1 THEN p.col + 1 ELSE p.col
        wrap == pixel1 >= PIXELS_PER_LINE
        line1 == IF wrap THEN p.line + 1 ELSE p.line
    IN  [p EXCEPT !.cycles_since_reset = p.cycles_since_reset + 1,
                  !.cycles_since_frame = IF wrap THEN p.cycles_since_frame
                                         ELSE p.cycles_since_frame + 1,
                  !.pixel = IF wrap THEN 0 ELSE pixel1,
                  !.col = IF wrap THEN 0 ELSE col1,
                  !.line = line1,
                  !.row = IF wrap /\ line1 > 0 /\ line1 % 8 = 0 THEN p.row + 1 ELSE p.row]

\* the counter updates that close one loop iteration
AdvanceDot(p) ==
    LET pixel1 == p.pixel + 1
        col1 == IF pixel1 > 1 /\ pixel1 % 8 = 1 THEN p.col + 1 ELSE p.col
        wrap == pixel1 >= PIXELS_PER_LINE
        line1 == IF wrap THEN p.line + 1 ELSE p.line
    IN  [p EXCEPT !.cycles_since_reset = p.cycles_since_reset + 1,
                  !.cycles_since_frame = p.cycles_since_frame + 1,
                  !.pixel = IF wrap THEN 0 ELSE pixel1,
                  !.col = IF wrap THEN 0 ELSE col1,
                  !.line = line1,
                  !.row = IF wrap /\ line1 > 0 /\ line1 % 8 = 0 THEN p.row + 1 ELSE p.row]

new_frame(p) ==
    [p EXCEPT !.frames_since_reset = p.frames_since_reset + 1,
              !.cycles_since_frame = 0,
              !.pixel = 0,
              !.line = 0,
              !.row = 0,
              !.col = 0]

\* one iteration of the loop of run_cycles, entered with the local
\* frame_ended: the engine afterwards (p), frame_ended afterwards, the
\* raise_nmi calls made (nmi) and whether an exception ended the call (exc)
\* an end of iteration that forgets that the frame has ended
EndOfDotForgetsFrame(a, ended, n) ==
    [ p |-> IF ended THEN new_frame(a) ELSE a,
      frame_ended |-> FALSE, nmi |-> n, exc |-> FALSE ]

\* the end of an iteration: a is the engine after the counter updates
EndOfDot(a, ended, n) ==
    [ p |-> IF ended THEN new_frame(a) ELSE a,
      frame_ended |-> ended, nmi |-> n, exc |-> FALSE ]

\* the iteration from the if/elif chain on, f being what the chain did
AfterPhase(f, frame_ended) ==
    EndOfDot(AdvanceDot(f.p), frame_ended \/ f.ended, f.nmi)

\* the iteration after its visible-scanline branch, v being what it did
AfterVisible(v, frame_ended) ==
    IF v.exc
    THEN [ p |-> v.p, frame_ended |-> frame_ended, nmi |-> 0, exc |-> TRUE ]
    ELSE AfterPhase(PhaseDot(v.p), frame_ended)

Dot(p, frame_ended) == AfterVisible(VisibleDot(p), frame_ended)

(***************************************************************************)
(* The renderers that draw a whole screen in one go.  What they hand to    *)
(* the screen is not part of the engine; what they leave in the engine is  *)
(* the palette cache that decode_palette fills.                            *)
(***************************************************************************)
\* decode_tile returns the tile as rows 0..7 of pixels 0..7
decode_tile(p, tile_index, tile_bank, palette, flip_h, flip_v) ==
    LET table_base == tile_bank * 4096
        tile_base == table_base + tile_index * PATTERN_SIZE_BYTES
        \* (byte & (0x1 << (7 - x))) > 0, the test of one bit, times plane + 1
        plane_bit(plane, y, x) ==
            ((vram_read(p.vram, tile_base + plane * 8 + y) \div 2 ^ (7 - x)) % 2)
                * (plane + 1)
        colour(y, x) ==
            LET pixel_color_ix == plane_bit(0, y, x) + plane_bit(1, y, x)
            IN  IF pixel_color_ix > 0 THEN palette[pixel_color_ix + 1]
                ELSE p.transparent_color
    IN  \* row yy, pixel xx is written from y, x with
        \* yy = (y if not flip_v else 7 - y), xx = (x if not flip_h else 7 - x)
        [yy \in 0..(TILE_HEIGHT_PX - 1) |->
            [xx \in 0..(TILE_WIDTH_PX - 1) |->
                colour(IF flip_v THEN TILE_HEIGHT_PX - 1 - yy ELSE yy,
                       IF flip_h THEN TILE_WIDTH_PX - 1 - xx ELSE xx)]]

\* the engine after decode_palette was called, in any order and any number
\* of times, with each palette id of used: a decode changes the cache entry
\* of its own palette only and reads VRAM, which it leaves alone, so each
\* entry is what one decode_palette call on p leaves there
DecodeUsed(p, is_sprite, used) ==
    [p EXCEPT !.palette_cache[is_sprite] =
        [id \in 0..3 |-> IF id \in used
                         THEN decode_palette(p, id, is_sprite).palette
                         ELSE @[id]]]

\* the sprite palettes decode_oam decodes: those of the 64 sprites it walks
\* from the held OAM address
OamPaletteIds(p) ==
    {BitAnd(p.oam[BitAnd(p.oam_addr_held + 4 * i + 2, 255)], 3) : i \in 0..63}

\* decode_oam returns the 64 sprites as <<x, y, tile, bkg_priority>>; each
\* sprite's palette is what decode_palette gives on the engine as the call
\* found it
decode_oam(p) ==
    LET double_sprites == BitAnd(p.ppu_ctrl, SPRITE_SIZE_MASK) > 0
        tile_bank == BoolInt(BitAnd(p.ppu_ctrl, SPRITE_PATTERN_TABLE_MASK) > 0)
        sprite(i) ==
            LET address == p.oam_addr_held + 4 * i
                y == p.oam[BitAnd(address, 255)]
                attribs == p.oam[BitAnd(address + 2, 255)]
                palette == decode_palette(p, BitAnd(attribs, 3), 1).palette
                flip_v == bit_high(attribs, 7)
                flip_h == bit_high(attribs, 6)
                bkg_priority == bit_high(attribs, 5)
                tile_ix == p.oam[BitAnd(address + 1, 255)]
                tile_upper_ix == BitAnd(tile_ix, 254)
                tile_upper == decode_tile(p, tile_upper_ix, tile_bank, palette,
                                          flip_h, flip_v)
                tile_lower == decode_tile(p, tile_upper_ix + 1, tile_bank, palette,
                                          flip_h, flip_v)
                first == IF ~flip_v THEN tile_upper ELSE tile_lower
                second == IF ~flip_v THEN tile_lower ELSE tile_upper
                tile == IF ~double_sprites
                        THEN decode_tile(p, tile_ix, tile_bank, palette, flip_h, flip_v)
                        ELSE [r \in 0..(2 * TILE_HEIGHT_PX - 1) |->
                                 IF r < TILE_HEIGHT_PX THEN first[r]
                                 ELSE second[r - TILE_HEIGHT_PX]]
                x == p.oam[BitAnd(address + 3, 255)]
            IN  << x, y, tile, bkg_priority >>
    IN  [i \in 1..64 |-> sprite(i - 1)]

\* the engine decode_oam leaves: the sprite palettes it decoded are cached
AfterDecodeOam(p) == DecodeUsed(p, 1, OamPaletteIds(p))

\* render_background decodes the palette of each tile of the nametable CTRL
\* selects and hands the decoded tiles to the screen: the engine afterwards
\* has the background palettes in use cached
render_background(p) ==
    LET nametable == BitAnd(p.ppu_ctrl, NAMETABLE_MASK)
        addr_base == NAMETABLE_START + nametable * NAMETABLE_LENGTH_BYTES
        palette_id(row, col) ==
            LET vblock == row \div 2
                v_subblock_ix == vblock % 2
                hblock == col \div 2
                attribute_byte ==
                    vram_read(p.vram, addr_base + ATTRIBUTE_TABLE_OFFSET
                                      + ((vblock \div 2) * 8 + hblock \div 2))
                h_subblock_ix == hblock % 2
                shift == 4 * v_subblock_ix + 2 * h_subblock_ix
            IN  BitAnd(attribute_byte, 3 * 2 ^ shift) \div 2 ^ shift
        used == {palette_id(row, col) : row \in 0..(SCREEN_TILE_ROWS - 1),
                                        col \in 0..(SCREEN_TILE_COLS - 1)}
    IN  DecodeUsed(p, 0, used)

\* render_sprites decodes the OAM and hands the tiles to the screen
render_sprites(p) == AfterDecodeOam(p)

\* render_screen looks the universal background colour up in the rgb palette
\* with the byte at the start of the palette, unmasked (exc: the byte is no
\* index of the 64 colours and the lookup raises), clears the screen and
\* renders the background and then the sprites
render_screen(p) ==
    IF vram_read(p.vram, PALETTE_START) >= Len(DEFAULT_NES_PALETTE)
    THEN [ p |-> p, exc |-> TRUE ]
    ELSE [ p |-> render_sprites(render_background(p)), exc |-> FALSE ]

(***************************************************************************)
(* The state machine: the engine, the position of the run_cycles call in   *)
(* progress, and what the last step did as the caller sees it.             *)
(***************************************************************************)
VARIABLES
    ppu,          \* the NESPPU object
    pending,      \* iterations left in the loop of the run_cycles call in progress
    frame_ended,  \* the local frame_ended of the run_cycles call in progress
    op,           \* the last call made: [name, reg, value], with
                  \* frames_since_reset when it was made (frames) and
                  \* cycles_since_reset when it was made plus the dots it
                  \* was asked to tick (due)
    ret,          \* what the last call returned (NoValue: nothing, or not yet)
    nmi,          \* raise_nmi calls made on the listener by the last step
    raised,       \* an exception left the last call
    frame_log,    \* what happened since frames_since_reset last changed
    ctrl_log,     \* the CTRL writes made since reset
    accesses,     \* calls other than run_cycles, counted against MaxAccesses
    script        \* the sequence of register calls the CPU is making: the calls
                  \* made (done) and those still to make (todo)

vars == <<ppu, pending, frame_ended, op, ret, nmi, raised, frame_log, ctrl_log,
          accesses, script>>

\* no sequence of register calls has been chosen
NoScript ==
    [ name |-> "none", ctrl |-> 0, addr |-> 0, v |-> 0, w |-> 0,
      todo |-> <<>>, done |-> <<>>, later |-> <<>>, until |-> 0 ]

NoValue == -1

EmptyLog == [vblank_set |-> 0, vblank_cleared |-> 0, nmis |-> 0, late_ctrl_writes |-> 0]

\* the log after a step that took the engine from p to q and raised n NMIs
LogStep(log, p, q, n) ==
    IF q.frames_since_reset # p.frames_since_reset THEN EmptyLog
    ELSE [ vblank_set |-> log.vblank_set + BoolInt(~p.in_vblank /\ q.in_vblank),
           vblank_cleared |-> log.vblank_cleared + BoolInt(p.in_vblank /\ ~q.in_vblank),
           nmis |-> log.nmis + n,
           late_ctrl_writes |-> log.late_ctrl_writes ]

\* the log after a write to register made with the engine at p: a CTRL write
\* made from line 241 on is a late one
LogWrite(log, p, register) ==
    IF register = PPU_CTRL /\ p.line >= 241
    THEN [log EXCEPT !.late_ctrl_writes = @ + 1] ELSE log

\* the CTRL writes after one more: at_reset counts those made with no dot
\* ticked yet, later the others
LogCtrlWrite(log, p, register) ==
    IF register # PPU_CTRL THEN log
    ELSE IF p.cycles_since_reset = 0 THEN [log EXCEPT !.at_reset = @ + 1]
    ELSE [log EXCEPT !.later = @ + 1]

Init ==
    /\ ppu = ResetPPU
    /\ pending = 0
    /\ frame_ended = FALSE
    /\ op = [name |-> "reset", reg |-> 0, value |-> 0, frames |-> 0, due |-> 0]
    /\ ret = NoValue
    /\ nmi = 0
    /\ raised = FALSE
    /\ frame_log = EmptyLog
    /\ ctrl_log = [at_reset |-> 0, later |-> 0]
    /\ accesses = 0
    /\ script = NoScript

Idle == pending = 0 /\ ~raised

\* one loop iteration of run_cycles with left iterations still to make
\* after it; the call returns frame_ended after the last one
LoopStep(d, left) ==
    /\ ppu' = d.p
    /\ pending' = IF left = 0 \/ d.exc THEN 0 ELSE left
    /\ frame_ended' = IF left = 0 \/ d.exc THEN FALSE ELSE d.frame_ended
    /\ ret' = IF left = 0 /\ ~d.exc THEN BoolInt(d.frame_ended) ELSE NoValue
    /\ nmi' = d.nmi
    /\ raised' = d.exc
    /\ frame_log' = LogStep(frame_log, ppu, d.p, d.nmi)

LoopIteration(fe, left) == LoopStep(Dot(ppu, fe), left)

\* run_cycles(n) is called: frame_ended = False, then the first iteration
RunCycles(n) ==
    /\ Idle
    /\ op' = [name |-> "run_cycles", reg |-> 0, value |-> 0,
              frames |-> ppu.frames_since_reset,
              due |-> ppu.cycles_since_reset + n]
    /\ UNCHANGED ctrl_log
    /\ IF n = 0
       THEN /\ ret' = BoolInt(FALSE)
            /\ nmi' = 0
            /\ UNCHANGED <<ppu, pending, frame_ended, raised, frame_log>>
       ELSE LoopIteration(FALSE, n - 1)

\* the next iteration of the run_cycles call in progress
ContinueRun ==
    /\ pending > 0
    /\ ~raised
    /\ LoopIteration(frame_ended, pending - 1)
    /\ UNCHANGED <<op, ctrl_log, accesses, script>>

\* r is what read_register returned and left
ReadStep(r) ==
    /\ ppu' = r.p
    /\ ret' = r.ret
    /\ frame_log' = LogStep(frame_log, ppu, r.p, 0)

ReadRegister(register) ==
    /\ Idle
    /\ ReadStep(read_register(ppu, register))
    /\ op' = [name |-> "read", reg |-> register, value |-> 0,
              frames |-> ppu.frames_since_reset,
              due |-> ppu.cycles_since_reset]
    /\ nmi' = 0
    /\ UNCHANGED <<pending, frame_ended, raised, ctrl_log>>

\* r is what write_register did
WriteStep(r, register) ==
    /\ ppu' = r.p
    /\ nmi' = r.nmi
    /\ frame_log' = LogWrite(LogStep(frame_log, ppu, r.p, r.nmi), ppu, register)
    /\ ctrl_log' = LogCtrlWrite(ctrl_log, ppu, register)

WriteRegister(register, value) ==
    /\ Idle
    /\ WriteStep(write_register(ppu, register, value), register)
    /\ op' = [name |-> "write", reg |-> register, value |-> value,
              frames |-> ppu.frames_since_reset,
              due |-> ppu.cycles_since_reset]
    /\ ret' = NoValue
    /\ UNCHANGED <<pending, frame_ended, raised>>

(***************************************************************************)
(* Spec: the engine from reset, ticked for up to MaxCycles dots.  The     *)
(* host makes up to MaxAccesses other calls: on the register port, any     *)
(* register and each value of PortValues, or of another public method of   *)
(* the engine, at the dots of the windows that start at PortDots; once it  *)
(* has made one, the run is followed to the end of that window.            *)
(***************************************************************************)
\* the longest run from reset that is explored, in dots
MaxCycles == 180000

\* run_cycles is called with 0..MaxRun dots
MaxRun == 2

\* the calls other than run_cycles of one run
MaxAccesses == 2

\* the length of a window of register accesses, in dots
Horizon == 2

\* a window starts: at reset, one dot before the warm-up test of CTRL turns,
\* at the first dot of line 241 (241 * 341 dots), in line 261 after the
\* sprite evaluation of frame 0, and at the vblank of frame 1
PortDots == {0, 29657, 82181, 89300, 171524}

PortValues == {128, 127}

Registers == 0..7

InWindow(c, n) == \E w \in PortDots : w <= c /\ c + n <= w + Horizon

Tick(n) ==
    /\ ppu.cycles_since_reset + n <= MaxCycles
    /\ accesses = 0 \/ InWindow(ppu.cycles_since_reset, n)
    /\ RunCycles(n)
    /\ UNCHANGED <<accesses, script>>

PortRead(register) ==
    /\ accesses < MaxAccesses
    /\ InWindow(ppu.cycles_since_reset, 0)
    /\ ReadRegister(register)
    /\ accesses' = accesses + 1
    /\ UNCHANGED script

PortWrite(register, value) ==
    /\ accesses < MaxAccesses
    /\ InWindow(ppu.cycles_since_reset, 0)
    /\ WriteRegister(register, value)
    /\ accesses' = accesses + 1
    /\ UNCHANGED script

\* the lines and tile columns fill_bkg_latches is called with: the first
\* tile of the screen, and a tile of the second tile row whose column lies
\* past the right edge of the nametable
LatchLines == {0, 9}

LatchCols == {0, 33}

\* the host may call another public method: no call is in progress, and the
\* call is counted with the register accesses and made in their windows
HostIdle ==
    /\ Idle
    /\ accesses < MaxAccesses
    /\ InWindow(ppu.cycles_since_reset, 0)

\* the call name(a, b) takes the engine to q and returns r (exc: it raises)
HostStep(name, a, b, q, r, exc) ==
    /\ ppu' = q
    /\ ret' = r
    /\ raised' = exc
    /\ op' = [name |-> name, reg |-> a, value |-> b,
              frames |-> ppu.frames_since_reset,
              due |-> ppu.cycles_since_reset]
    /\ nmi' = 0
    /\ accesses' = accesses + 1
    /\ UNCHANGED <<pending, frame_ended, frame_log, ctrl_log, script>>

DecodePalette(palette_id, is_sprite) ==
    /\ HostIdle
    /\ HostStep("decode_palette", palette_id, is_sprite,
                decode_palette(ppu, palette_id, is_sprite).p,
                decode_palette(ppu, palette_id, is_sprite).palette, FALSE)

InvalidatePaletteCache ==
    /\ HostIdle
    /\ HostStep("invalidate_palette_cache", 0, 0,
                invalidate_palette_cache(ppu), NoValue, FALSE)

FillBkgLatches(line, col) ==
    /\ HostIdle
    /\ HostStep("fill_bkg_latches", line, col,
                fill_bkg_latches(ppu, line, col), NoValue, FALSE)

ShiftBkgLatches ==
    /\ HostIdle
    /\ HostStep("shift_bkg_latches", 0, 0, shift_bkg_latches(ppu), NoValue, FALSE)

DecodeOam ==
    /\ HostIdle
    /\ HostStep("decode_oam", 0, 0, AfterDecodeOam(ppu), decode_oam(ppu), FALSE)

RenderBackground ==
    /\ HostIdle
    /\ HostStep("render_background", 0, 0, render_background(ppu), NoValue, FALSE)

RenderSprites ==
    /\ HostIdle
    /\ HostStep("render_sprites", 0, 0, render_sprites(ppu), NoValue, FALSE)

RenderScreen ==
    /\ HostIdle
    /\ HostStep("render_screen", 0, 0, render_screen(ppu).p, NoValue,
                render_screen(ppu).exc)

Next ==
    \/ \E n \in 0..MaxRun : Tick(n)
    \/ ContinueRun
    \/ \E register \in Registers : PortRead(register)
    \/ \E register \in Registers, value \in PortValues : PortWrite(register, value)
    \/ \E palette_id \in 0..3, is_sprite \in 0..1 : DecodePalette(palette_id, is_sprite)
    \/ InvalidatePaletteCache
    \/ \E line \in LatchLines, col \in LatchCols : FillBkgLatches(line, col)
    \/ ShiftBkgLatches
    \/ DecodeOam
    \/ RenderBackground
    \/ RenderSprites
    \/ RenderScreen

Spec == Init /\ [][Next]_vars

(***************************************************************************)
(* SpecCtrl: the engine from reset, ticked for up to MaxCtrlCycles dots,   *)
(* with up to MaxCtrlWrites writes to CTRL, each when the dots ticked are  *)
(* one of CtrlDots, and a read of CTRL right after a write.                *)
(***************************************************************************)
\* the longest run of SpecCtrl, in dots: past the end of frame 0
MaxCtrlCycles == 89400

MaxCtrlWrites == 1

\* CTRL is written at reset and at the first dot the warm-up test lets it in
CtrlDots == {0, CTRL_WARMUP_CYCLES}

CtrlTick(n) ==
    /\ ppu.cycles_since_reset + n <= MaxCtrlCycles
    /\ RunCycles(n)
    /\ UNCHANGED <<accesses, script>>

CtrlWrite(value) ==
    /\ ctrl_log.at_reset + ctrl_log.later < MaxCtrlWrites
    /\ ppu.cycles_since_reset \in CtrlDots
    /\ WriteRegister(PPU_CTRL, value)
    /\ UNCHANGED <<accesses, script>>

CtrlRead ==
    /\ op.name = "write"
    /\ ReadRegister(PPU_CTRL)
    /\ UNCHANGED <<accesses, script>>

NextCtrl ==
    \/ \E n \in 0..MaxRun : CtrlTick(n)
    \/ ContinueRun
    \/ \E value \in PortValues : CtrlWrite(value)
    \/ CtrlRead

SpecCtrl == Init /\ [][NextCtrl]_vars

(***************************************************************************)
(* SpecScript: the engine from reset, ticked for up to the warm-up of      *)
(* CTRL; at one of ScriptDots the CPU makes one sequence of register       *)
(* calls, one of Scripts, with no dot ticked in between.                   *)
(***************************************************************************)
\* a register call of a script
W(register, value) == [name |-> "write", reg |-> register, value |-> value]

R(register) == [name |-> "read", reg |-> register, value |-> 0]

\* the CTRL bytes of a script: either auto-increment step
CtrlBytes == {0, VRAM_INCREMENT_MASK}

\* the address bytes of a script: pattern table, nametable, the last page
\* below the palette, the palette
HighBytes == {0, 32, 62, 63}

LowBytes == {0, 255}

DataBytes == {170, 187}

\* write v at hi:lo, set the address again, read DATA twice
ReadbackScript(ctrl, hi, lo, v) ==
    [ name |-> "readback", ctrl |-> ctrl, addr |-> hi * 256 + lo, v |-> v, w |-> 0,
      todo |-> << W(PPU_CTRL, ctrl),
                  W(PPU_ADDR, hi), W(PPU_ADDR, lo), W(PPU_DATA, v),
                  W(PPU_ADDR, hi), W(PPU_ADDR, lo), R(PPU_DATA), R(PPU_DATA) >>,
      done |-> <<>>, later |-> <<>>, until |-> 0 ]

\* write v and w from hi:lo on, set the address again, read DATA three times
StreamScript(ctrl, hi, lo, v, w) ==
    [ name |-> "stream", ctrl |-> ctrl, addr |-> hi * 256 + lo, v |-> v, w |-> w,
      todo |-> << W(PPU_CTRL, ctrl),
                  W(PPU_ADDR, hi), W(PPU_ADDR, lo), W(PPU_DATA, v), W(PPU_DATA, w),
                  W(PPU_ADDR, hi), W(PPU_ADDR, lo),
                  R(PPU_DATA), R(PPU_DATA), R(PPU_DATA) >>,
      done |-> <<>>, later |-> <<>>, until |-> 0 ]

\* set the address to the last byte of the 16-bit space, write DATA and
\* read it
TopScript(ctrl) ==
    [ name |-> "top", ctrl |-> ctrl, addr |-> 65535, v |-> 170, w |-> 0,
      todo |-> << W(PPU_CTRL, ctrl),
                  W(PPU_ADDR, 255), W(PPU_ADDR, 255), W(PPU_DATA, 170),
                  R(PPU_DATA) >>,
      done |-> <<>>, later |-> <<>>, until |-> 0 ]

\* the longest sequence of calls drawn freely from a set of calls
MaxWord == 4

Words(calls) == UNION { [1..n -> calls] : n \in 1..MaxWord }

WordScript(name, word) ==
    [ name |-> name, ctrl |-> 0, addr |-> 0, v |-> 0, w |-> 0,
      todo |-> word, done |-> <<>>, later |-> <<>>, until |-> 0 ]

\* the calls that touch the write toggle
ToggleBytes == {3, 12}

ToggleCalls ==
    {W(PPU_SCROLL, v) : v \in ToggleBytes} \cup {W(PPU_ADDR, v) : v \in ToggleBytes}
        \cup {R(PPU_STATUS)}

\* the calls that touch OAM
OamBytes == {7, 255}

OamCalls ==
    {W(OAM_ADDR, v) : v \in OamBytes} \cup {W(OAM_DATA, v) : v \in OamBytes}
        \cup {R(OAM_DATA)}

Scripts ==
    {ReadbackScript(c, hi, lo, v) :
         c \in CtrlBytes, hi \in HighBytes, lo \in LowBytes, v \in DataBytes}
    \cup {StreamScript(c, hi, lo, 170, 187) :
         c \in CtrlBytes, hi \in HighBytes, lo \in LowBytes}
    \cup {TopScript(c) : c \in CtrlBytes}
    \cup {WordScript("toggle", word) : word \in Words(ToggleCalls)}
    \cup {WordScript("oam", word) : word \in Words(OamCalls)}

\* the CPU makes its calls at reset or once CTRL writes are let in
ScriptDots == {0, CTRL_WARMUP_CYCLES}

ScriptTick(n) ==
    /\ script = NoScript
    /\ ppu.cycles_since_reset + n <= CTRL_WARMUP_CYCLES
    /\ RunCycles(n)
    /\ UNCHANGED <<accesses, script>>

StartScript ==
    /\ Idle
    /\ script = NoScript
    /\ ppu.cycles_since_reset \in ScriptDots
    /\ script' \in Scripts
    /\ UNCHANGED <<ppu, pending, frame_ended, op, ret, nmi, raised, frame_log,
                   ctrl_log, accesses>>

\* the next call of the script
ScriptCall(call) ==
    IF call.name = "read" THEN ReadRegister(call.reg)
    ELSE WriteRegister(call.reg, call.value)

ScriptStep ==
    /\ script.todo # <<>>
    /\ ScriptCall(Head(script.todo))
    /\ script' = [script EXCEPT !.todo = Tail(@),
                                !.done = Append(@, Head(script.todo))]
    /\ UNCHANGED accesses

NextScript ==
    \/ \E n \in 0..MaxRun : ScriptTick(n)
    \/ ContinueRun
    \/ StartScript
    \/ ScriptStep

SpecScript == Init /\ [][NextScript]_vars

(***************************************************************************)
(* SpecRender: the engine from reset with rendering switched on.  The CPU  *)
(* follows one plan of Plans: at each dot a stage names it makes the       *)
(* stage's register calls, one after the other, and ticks the engine in    *)
(* between, up to the plan's last dot.                                     *)
(***************************************************************************)
Stage(at, calls) == [at |-> at, calls |-> calls]

\* the first dot of a line
LineDot(line) == line * PIXELS_PER_LINE

PlanOf(name, ctrl, addr, v, stages, until) ==
    [ name |-> name, ctrl |-> ctrl, addr |-> addr, v |-> v, w |-> 0,
      todo |-> <<>>, done |-> <<>>, later |-> stages, until |-> until ]

\* nine sprites, 0 to 8, of which the first eight start on the lines
\* last - 7 .. last and the ninth on last as well: OAM entries 0, 4, .., 32
SpriteTop(last, j) == IF j = 8 THEN last ELSE last - 7 + j

NineSprites(last) ==
    [ i \in 1..18 |-> IF i % 2 = 1 THEN W(OAM_ADDR, 4 * ((i - 1) \div 2))
                                   ELSE W(OAM_DATA, SpriteTop(last, (i - 2) \div 2)) ]

\* the sprites are stored at reset and OAMADDR is left at first; rendering
\* (background only) is switched on ten lines above last, together with
\* the CTRL byte, and OAMADDR is moved on to 200; the run goes on to two
\* lines below last
OverflowPlan(ctrl, first, last) ==
    PlanOf("overflow", ctrl, first, last,
           << Stage(0, NineSprites(last) \o << W(OAM_ADDR, first) >>),
              Stage(LineDot(last - 10), << W(PPU_CTRL, ctrl), W(PPU_MASK, 8),
                                           W(OAM_ADDR, 200) >>) >>,
           LineDot(last + 2))

\* pattern 0 gets a solid low plane, so that every background and sprite
\* pixel is opaque; OAMADDR is left at first and the background is switched
\* on at reset, the sprites after the first sprite evaluation, and byte v is
\* stored at palette address lo on line 1
SolidPattern == << W(PPU_ADDR, 0), W(PPU_ADDR, 0) >> \o [i \in 1..8 |-> W(PPU_DATA, 255)]

HitPlan(first, lo, v) ==
    PlanOf("hit", 0, first, v,
           << Stage(0, SolidPattern \o << W(OAM_ADDR, first), W(PPU_MASK, 10) >>),
              Stage(300, << W(PPU_MASK, 30) >>),
              Stage(LineDot(1) + 20,
                    << W(PPU_ADDR, 63), W(PPU_ADDR, lo), W(PPU_DATA, v) >>) >>,
           LineDot(2) + 20)

\* pattern 0 is solid, sprite 0 is moved to column x and the background is
\* switched on at reset; MASK is set to mask after the first sprite
\* evaluation, and the run goes on to the end of line 1
EdgePlan(x, mask) ==
    PlanOf("edge", 0, x, mask,
           << Stage(0, SolidPattern \o << W(OAM_ADDR, 3), W(OAM_DATA, x),
                                          W(OAM_ADDR, 0), W(PPU_MASK, 10) >>),
              Stage(300, << W(PPU_MASK, mask) >>) >>,
           LineDot(2))

\* the sprite-zero hit is set on line 1 as in HitPlan; on line 2 the CPU
\* reads STATUS and switches rendering off; in vblank it reads STATUS and
\* DATA and stores a byte in OAM, which moves OAMADDR on to 1; the run goes
\* on past dot 65 of line 0 of frame 1
LongPlan ==
    PlanOf("long", 0, 0, 0,
           << Stage(0, SolidPattern \o << W(OAM_ADDR, 0), W(PPU_MASK, 10) >>),
              Stage(300, << W(PPU_MASK, 30) >>),
              Stage(LineDot(2), << R(PPU_STATUS), W(PPU_CTRL, 0), W(PPU_MASK, 0) >>),
              Stage(LineDot(250), << R(PPU_STATUS), R(PPU_DATA), W(OAM_DATA, 1) >>) >>,
           LineDot(262) + 70)

\* sprite colour 1 of sprite palettes 0 and 1 differs from the background's;
\* sprite 0 (attribute byte attr) is at x = 4 and sprite 1 (palette 1) at
\* x = 6, in front of the six sprites of zeroed OAM that follow at x = 0;
\* every tile is solid in colour 1
LayerPalette ==
    << W(PPU_ADDR, 63), W(PPU_ADDR, 17), W(PPU_DATA, 33),
       W(PPU_ADDR, 63), W(PPU_ADDR, 21), W(PPU_DATA, 22) >>

LayerSprites(attr) ==
    << W(OAM_ADDR, 2), W(OAM_DATA, attr), W(OAM_DATA, 4),
       W(OAM_DATA, 0), W(OAM_DATA, 0), W(OAM_DATA, 1), W(OAM_DATA, 6),
       W(OAM_ADDR, 0) >>

LayerPlan(attr, mask) ==
    PlanOf("layer", 0, attr, mask,
           << Stage(0, LayerPalette \o SolidPattern \o LayerSprites(attr)
                       \o << W(PPU_MASK, 10) >>),
              Stage(300, << W(PPU_MASK, mask) >>) >>,
           LineDot(1) + 20)

\* the attribute byte of sprite 0: in front of the background, behind it
LayerAttrs == {0, 32}

\* rendering is switched on right after reset, over empty VRAM and zeroed
\* OAM: the background alone (8), or the sprites with their left-8 bit (20)
BarePlan(mask) ==
    PlanOf("bare", 0, 0, mask, << Stage(0, << W(PPU_MASK, mask) >>) >>, 20)

BareMasks == {8, 20}

\* tile 0 of pattern table 0 is solid and table $1000 is empty; sprite 0 is
\* at y = 88 with tile index tile; once CTRL is writable the sprites are
\* made 8x16 and rendering is switched on
TallPlan(tile) ==
    PlanOf("tall", SPRITE_SIZE_MASK, tile, 88,
           << Stage(0, SolidPattern \o << W(OAM_ADDR, 0), W(OAM_DATA, 88),
                                          W(OAM_DATA, tile), W(OAM_ADDR, 0) >>),
              Stage(CTRL_WARMUP_CYCLES, << W(PPU_CTRL, SPRITE_SIZE_MASK),
                                           W(PPU_MASK, 8) >>) >>,
           LineDot(88) + 10)

TallTiles == {0, 1}

\* line 1 of the tiles 0..3 of pattern table 0 gets four different low
\* planes and line 0 of each tile the complement of its line 1, and the
\* first TileCols columns of the top row of nametable 0 name the tiles
\* 0, 1, 2, 3, 0, ..; the background is switched on at reset and stays on
\* through frame 0, its pre-render line, and lines 0 and 1 of frame 1
TilePatterns == << 255, 15, 240, 170 >>

TileCols == 12

PatternCalls ==
    [ i \in 1..16 |->
        IF i % 4 = 1 THEN W(PPU_ADDR, 0)
        ELSE IF i % 4 = 2 THEN W(PPU_ADDR, 16 * ((i - 1) \div 4))
        ELSE IF i % 4 = 3 THEN W(PPU_DATA, 255 - TilePatterns[(i - 1) \div 4 + 1])
        ELSE W(PPU_DATA, TilePatterns[(i - 1) \div 4 + 1]) ]

NameCalls ==
    << W(PPU_ADDR, 32), W(PPU_ADDR, 0) >>
        \o [ c \in 1..TileCols |-> W(PPU_DATA, (c - 1) % 4) ]

TilesPlan ==
    PlanOf("tiles", 0, 0, 0,
           << Stage(0, PatternCalls \o NameCalls \o << W(PPU_MASK, 10) >>) >>,
           LineDot(263) + 100)

\* MASK with background and sprites on: both left-8 bits set, the sprite
\* one clear, the background one clear
EdgeMasks == {30, 26, 28}

\* the height bit of CTRL, off and on
HeightBytes == {0, SPRITE_SIZE_MASK}

Plans ==
    {OverflowPlan(0, first, 50) : first \in {0, 8}}
        \cup {OverflowPlan(c, 0, 100) : c \in HeightBytes}
        \cup {HitPlan(first, lo, v) : first \in {0, 252}, lo \in {1, 17}, v \in {33}}
        \cup {HitPlan(253, 1, 33)}
        \cup {EdgePlan(x, mask) : x \in {4, 255}, mask \in EdgeMasks}
        \cup {LongPlan}
        \cup {TilesPlan}
        \cup {TallPlan(tile) : tile \in TallTiles}
        \cup {BarePlan(mask) : mask \in BareMasks}
        \cup {LayerPlan(attr, mask) : attr \in LayerAttrs, mask \in {30, 28}}

StartPlan ==
    /\ Idle
    /\ script = NoScript
    /\ ppu.cycles_since_reset = 0
    /\ script' \in Plans
    /\ UNCHANGED <<ppu, pending, frame_ended, op, ret, nmi, raised, frame_log,
                   ctrl_log, accesses>>

\* the dot up to which the engine is ticked before the CPU acts again
NextStop == IF script.later # <<>> THEN Head(script.later).at ELSE script.until

RenderTick(n) ==
    /\ script # NoScript
    /\ script.todo = <<>>
    /\ ppu.cycles_since_reset + n <= NextStop
    /\ RunCycles(n)
    /\ UNCHANGED <<accesses, script>>

\* the first call of the next stage, made at the stage's dot
StageStep(stage) ==
    /\ ppu.cycles_since_reset = stage.at
    /\ ScriptCall(Head(stage.calls))
    /\ script' = [script EXCEPT !.todo = Tail(stage.calls),
                                !.done = Append(@, Head(stage.calls)),
                                !.later = Tail(@)]
    /\ UNCHANGED accesses

StartStage ==
    /\ script.todo = <<>>
    /\ script.later # <<>>
    /\ StageStep(Head(script.later))

NextRender ==
    \/ StartPlan
    \/ StartStage
    \/ ScriptStep
    \/ \E n \in 1..MaxRun : RenderTick(n)
    \/ ContinueRun

SpecRender == Init /\ [][NextRender]_vars

(***************************************************************************)
(* What a step is, as the caller of the engine sees it.                    *)
(***************************************************************************)
\* the step ticks one dot
DotStep == ppu'.cycles_since_reset = ppu.cycles_since_reset + 1

\* the step ends a frame
FrameChange == ppu'.frames_since_reset # ppu.frames_since_reset

\* the step is a write to, or a read of, register
WriteOf(register) == op'.name = "write" /\ op'.reg = register

ReadOf(register) == op'.name = "read" /\ op'.reg = register

Bit7(v) == (v \div 128) % 2 = 1

WriteOnlyRegisters == {PPU_CTRL, PPU_MASK, OAM_ADDR, PPU_SCROLL, PPU_ADDR}

(***************************************************************************)
(* The raster position and the frame.                                      *)
(***************************************************************************)
\* C1: at every dot boundary, after any sequence of run_cycles calls and
\* register reads and writes from reset, 0 <= pixel <= 340 and
\* 0 <= line <= 261.
C1_RasterInRange ==
    /\ 0 <= ppu.pixel /\ ppu.pixel <= 340
    /\ 0 <= ppu.line /\ ppu.line <= 261

\* both maxima are met between two calls, at the last dot of frame 0
C1_Witness ==
    /\ Idle
    /\ ppu.line = 261 /\ ppu.pixel = 340
    /\ ppu.cycles_since_reset = 262 * PIXELS_PER_LINE - 1

\* C2: counting the dots ticked between consecutive frame ends from reset,
\* the lengths alternate: 262*341 dots for an even frame, one dot less for
\* an odd frame.
C2_FrameLengthsAlternate ==
    [][FrameChange =>
         ppu.cycles_since_frame + 1
             = 262 * PIXELS_PER_LINE - (ppu.frames_since_reset % 2)]_vars

\* C3: in every frame in_vblank rises exactly once, only when dot
\* (241, 1) is processed, and falls exactly once, when dot (261, 1) is
\* processed or when STATUS is read; nothing else changes in_vblank.
C3_VblankOncePerFrame ==
    [][/\ (~ppu.in_vblank /\ ppu'.in_vblank)
             => (DotStep /\ ppu.line = 241 /\ ppu.pixel = 1)
       /\ (ppu.in_vblank /\ ~ppu'.in_vblank)
             => \/ DotStep /\ ppu.line = 261 /\ ppu.pixel = 1
                \/ ReadOf(PPU_STATUS)
       /\ FrameChange
             => frame_log.vblank_set = 1 /\ frame_log.vblank_cleared = 1]_vars

\* C4: processing dot (241, 1) calls raise_nmi once if the stored CTRL
\* bit 7 is 1 and not at all if it is 0, and no other dot calls it; so a
\* frame that ends with CTRL bit 7 stored and no CTRL write from line 241 on
\* has had exactly one NMI.
C4_OneNmiPerFrame ==
    [][/\ DotStep
             => nmi' = IF ppu.line = 241 /\ ppu.pixel = 1 /\ Bit7(ppu.ppu_ctrl)
                       THEN 1 ELSE 0
       /\ (FrameChange /\ Bit7(ppu.ppu_ctrl) /\ frame_log.late_ctrl_writes = 0)
             => frame_log.nmis = 1]_vars

(***************************************************************************)
(* Writes to CTRL.                                                         *)
(***************************************************************************)
\* C5: a CTRL write made once the warm-up test lets it in calls raise_nmi
\* exactly once if in_vblank is true, the written bit 7 is 1 and the stored
\* bit 7 is 0, and not at all otherwise; the write of CTRL made after
\* exactly 241*341 dots from reset raises no NMI.
C5_CtrlWriteNmi ==
    [][/\ (WriteOf(PPU_CTRL) /\ ppu.cycles_since_reset >= CTRL_WARMUP_CYCLES)
             => nmi' = IF /\ ppu.in_vblank
                          /\ Bit7(op'.value)
                          /\ ~Bit7(ppu.ppu_ctrl)
                       THEN 1 ELSE 0
       /\ (WriteOf(PPU_CTRL) /\ ppu.cycles_since_reset = 241 * PIXELS_PER_LINE)
             => nmi' = 0]_vars

\* a CTRL write has raised an NMI, in the vblank of frame 1
C5_Witness ==
    /\ op.name = "write" /\ op.reg = PPU_CTRL
    /\ nmi = 1
    /\ ppu.in_vblank
    /\ ppu.cycles_since_reset >= 3 * CTRL_WARMUP_CYCLES

\* C6: a CTRL write made while fewer than 88974 dots (3 dots for each of
\* 29658 CPU cycles) have been ticked leaves the stored CTRL unchanged, and
\* a CTRL write made later is stored.
C6_CtrlIgnoredForWarmup ==
    [][WriteOf(PPU_CTRL)
         => IF ppu.cycles_since_reset < 3 * CTRL_WARMUP_CYCLES
            THEN ppu'.ppu_ctrl = ppu.ppu_ctrl
            ELSE ppu'.ppu_ctrl = op'.value]_vars

\* C7: a CTRL write made with no dot ticked changes only io_latch (the
\* stored CTRL and the base nametable stay 0, no NMI); a read of CTRL right
\* after it returns the written byte; and with no CTRL write after it the
\* first vblank entry raises no NMI.
C7_CtrlWriteAtReset ==
    [][/\ (WriteOf(PPU_CTRL) /\ ppu.cycles_since_reset = 0)
             => /\ ppu' = [ppu EXCEPT !.io_latch = op'.value]
                /\ ppu'.ppu_ctrl = 0 /\ ppu'.tN = 0
                /\ nmi' = 0
       /\ ( /\ op.name = "write" /\ op.reg = PPU_CTRL
            /\ ppu.cycles_since_reset = 0
            /\ ReadOf(PPU_CTRL) )
             => ret' = op.value
       /\ ( /\ DotStep
            /\ ppu.frames_since_reset = 0 /\ ppu.line = 241 /\ ppu.pixel = 1
            /\ ctrl_log.later = 0 )
             => nmi' = 0]_vars

\* CTRL was written at reset and not since, and the first vblank has just
\* been entered without an NMI
C7_Witness ==
    /\ ctrl_log.at_reset = 1 /\ ctrl_log.later = 0
    /\ ppu.io_latch = 128
    /\ ppu.frames_since_reset = 0 /\ ppu.line = 241 /\ ppu.pixel = 2
    /\ ppu.in_vblank
    /\ nmi = 0

(***************************************************************************)
(* Reads of STATUS and the bus latch.                                      *)
(***************************************************************************)
\* C8: after every read of STATUS the write toggle is 0 and in_vblank is
\* false.
C8_StatusReadClears ==
    (op.name = "read" /\ op.reg = PPU_STATUS)
        => (ppu.ppu_byte_latch = 0 /\ ~ppu.in_vblank)

\* STATUS has been read in vblank (bit 7 of the byte read) right after a
\* first write to SCROLL had set the write toggle
C8_Witness ==
    /\ op.name = "read" /\ op.reg = PPU_STATUS
    /\ ret >= 128
    /\ ppu.ppu_scroll[PPU_SCROLL_X] = 128
    /\ ppu.ppu_byte_latch = 0 /\ ~ppu.in_vblank

\* C9: the byte a STATUS read returns has bit 7 = in_vblank, bit 6 =
\* sprite_zero_hit, bit 5 = sprite_overflow, as they were before the read,
\* and its low 5 bits are the low 5 bits of io_latch.
C9_StatusByte ==
    [][ReadOf(PPU_STATUS)
         => ret' = 128 * BoolInt(ppu.in_vblank)
                   + 64 * BoolInt(ppu.sprite_zero_hit)
                   + 32 * BoolInt(ppu.sprite_overflow)
                   + (ppu.io_latch % 32)]_vars

\* C10: every write of a byte v to any register sets io_latch to v, and a
\* read of a write-only register right after it returns v and changes
\* nothing of the engine.
C10_LatchOnWrite ==
    [][/\ (op'.name = "write" /\ op'.reg \in Registers)
             => ppu'.io_latch = op'.value
       /\ (op.name = "write" /\ op'.name = "read" /\ op'.reg \in WriteOnlyRegisters)
             => (ret' = op.value /\ ppu' = ppu)]_vars

\* CTRL has been read right after a write of 0x80 made at reset that stored
\* nothing but the bus latch (a CTRL write the warm-up test ignored, or a
\* write to STATUS)
C10_Witness ==
    /\ op.name = "read" /\ op.reg = PPU_CTRL
    /\ ret = 128
    /\ ppu = [ResetPPU EXCEPT !.io_latch = 128]

(***************************************************************************)
(* The bus latch after reads, the write toggle, and DATA.                  *)
(***************************************************************************)
\* the auto-increment step the stored CTRL selects
StepOf(ctrl) == IF (ctrl \div 4) % 2 = 1 THEN 32 ELSE 1

\* the position in done of the last STATUS read, 0 when there is none, and
\* the calls made after it
RECURSIVE LastStatus(_, _)
LastStatus(done, i) ==
    IF i = 0 THEN 0
    ELSE IF done[i] = R(PPU_STATUS) THEN i
    ELSE LastStatus(done, i - 1)

CallsSinceStatus(done) == SubSeq(done, LastStatus(done, Len(done)) + 1, Len(done))

StatusWasRead(done) == LastStatus(done, Len(done)) > 0

\* C11: after a read of STATUS, OAMDATA or DATA, io_latch is the byte that
\* the read returned.
C11_LatchAfterRead ==
    [][(op'.name = "read" /\ op'.reg \in {PPU_STATUS, OAM_DATA, PPU_DATA})
         => ppu'.io_latch = ret']_vars

\* C12: every SCROLL write and every ADDR write flips the write toggle and
\* every STATUS read resets it to 0; the first toggle write after a STATUS
\* read, when it is a SCROLL write, stores scroll_x; an ADDR write that
\* follows exactly one SCROLL write since the last STATUS read replaces the
\* low byte of ppu_addr.
C12_SharedToggle ==
    [][/\ (WriteOf(PPU_SCROLL) \/ WriteOf(PPU_ADDR))
             => ppu'.ppu_byte_latch = 1 - ppu.ppu_byte_latch
       /\ ReadOf(PPU_STATUS) => ppu'.ppu_byte_latch = 0
       /\ ( /\ WriteOf(PPU_SCROLL)
            /\ StatusWasRead(script.done)
            /\ CallsSinceStatus(script.done) = <<>> )
             => ppu'.ppu_scroll = [ppu.ppu_scroll EXCEPT ![PPU_SCROLL_X] = op'.value]
       /\ ( /\ WriteOf(PPU_ADDR)
            /\ StatusWasRead(script.done)
            /\ Len(CallsSinceStatus(script.done)) = 1
            /\ CallsSinceStatus(script.done)[1].reg = PPU_SCROLL )
             => ppu'.ppu_addr = (ppu.ppu_addr \div 256) * 256 + op'.value]_vars

\* a STATUS read fell between two SCROLL writes, and the second one stored
\* scroll_x
C12_Witness ==
    /\ script.done = << W(PPU_SCROLL, 3), R(PPU_STATUS), W(PPU_SCROLL, 12) >>
    /\ ppu.ppu_scroll[PPU_SCROLL_X] = 12
    /\ ppu.ppu_scroll[PPU_SCROLL_Y] = 0
    /\ ppu.ppu_byte_latch = 1

\* C13: for a non-palette address hi:lo and a byte v, from write toggle 0,
\* the calls ADDR(hi), ADDR(lo), DATA(v), ADDR(hi), ADDR(lo), read DATA, read
\* DATA return v on the second read, for either auto-increment step.
C13_ReadbackSecondRead ==
    ( /\ script.name = "readback"
      /\ script.todo = <<>>
      /\ script.addr < PALETTE_START )
        => ret = script.v

\* C13, with the second read kept below the palette: for hi:lo with
\* hi:lo + step below the start of the palette, the same calls return v on
\* the second DATA read, for either auto-increment step.
C13_ReadbackBelowPalette ==
    ( /\ script.name = "readback"
      /\ script.todo = <<>>
      /\ script.addr + StepOf(ppu.ppu_ctrl) < PALETTE_START )
        => ret = script.v

\* the sequence has been made with the step of 32 stored
C13_Witness ==
    /\ script.name = "readback" /\ script.todo = <<>>
    /\ script.addr = 8192 + 255
    /\ ppu.ppu_ctrl = VRAM_INCREMENT_MASK
    /\ ppu.ppu_addr = 8192 + 255 + 64
    /\ ret = 170

\* C14: a DATA read with ppu_addr below the palette returns what
\* data_buffer held and refills it with VRAM[ppu_addr] as it is before the
\* increment; so after v and w are stored at a and a + step and the address
\* is set to a again, three DATA reads return the old buffer, v and w.
C14_BufferedRead ==
    [][/\ (ReadOf(PPU_DATA) /\ ppu.ppu_addr < PALETTE_START)
             => /\ ret' = ppu.ppu_data_buffer
                /\ ppu'.ppu_data_buffer = vram_read(ppu.vram, ppu.ppu_addr)
       /\ ( /\ script'.name = "stream"
            /\ script'.addr + 2 * StepOf(ppu.ppu_ctrl) < PALETTE_START
            /\ ReadOf(PPU_DATA) )
             => ret' = CASE Len(script'.todo) = 2 -> 0
                         [] Len(script'.todo) = 1 -> script'.v
                         [] OTHER -> script'.w]_vars

\* the third read has returned w from a + 32
C14_Witness ==
    /\ script.name = "stream" /\ script.todo = <<>>
    /\ script.addr = 8192
    /\ ppu.ppu_ctrl = VRAM_INCREMENT_MASK
    /\ ppu.ppu_addr = 8192 + 3 * 32
    /\ ret = 187

\* C15: every DATA write and every DATA read adds 1 to ppu_addr when the
\* stored CTRL bit 2 is 0 and 32 when it is 1; the second of two DATA writes
\* in a row is made with ppu_addr at the first address plus the step.
C15_AutoIncrement ==
    [][/\ (WriteOf(PPU_DATA) \/ ReadOf(PPU_DATA))
             => ppu'.ppu_addr = ppu.ppu_addr + StepOf(ppu.ppu_ctrl)
       /\ (op.name = "write" /\ op.reg = PPU_DATA /\ WriteOf(PPU_DATA))
             => ppu.ppu_addr = script.addr + StepOf(ppu.ppu_ctrl)]_vars

\* two DATA writes in a row with the step of 32 stored
C15_Witness ==
    /\ script.name = "stream" /\ Len(script.done) = 5
    /\ ppu.ppu_ctrl = VRAM_INCREMENT_MASK
    /\ ppu.ppu_addr = script.addr + 64
    /\ vram_read(ppu.vram, script.addr + 32) = 187

(***************************************************************************)
(* OAM through the register port, and the nametable bits of ADDR.          *)
(***************************************************************************)
\* C17: an OAMDATA write of v stores v at oam[oam_addr] and nothing else in
\* OAM, then sets oam_addr to (oam_addr + 1) mod 256; an OAMDATA read
\* returns oam[oam_addr] and leaves oam_addr and OAM as they are; oam_addr
\* is always in 0..255.
C17_OamData ==
    [][/\ WriteOf(OAM_DATA)
             => /\ ppu'.oam = [ppu.oam EXCEPT ![ppu.oam_addr] = op'.value]
                /\ ppu'.oam_addr = (ppu.oam_addr + 1) % 256
       /\ ReadOf(OAM_DATA)
             => /\ ret' = ppu.oam[ppu.oam_addr]
                /\ ppu'.oam = ppu.oam
                /\ ppu'.oam_addr = ppu.oam_addr
       /\ 0 <= ppu'.oam_addr /\ ppu'.oam_addr <= 255]_vars

\* a write at oam_addr 255 has wrapped oam_addr to 0, and a read has
\* returned the byte at 0
C17_Witness ==
    /\ script.done = << W(OAM_ADDR, 255), W(OAM_DATA, 7), R(OAM_DATA) >>
    /\ ppu.oam[255] = 7
    /\ ppu.oam_addr = 0
    /\ ret = 0

\* C18: the ADDR write made with write toggle 0 puts the low 2 bits of the
\* written byte in the base nametable that background fetches use; the ADDR
\* write made with write toggle 1 leaves the base nametable as it is.
C18_AddrNametable ==
    [][WriteOf(PPU_ADDR)
         => IF ppu.ppu_byte_latch = 0
            THEN ppu'.tN = op'.value % 4
            ELSE ppu'.tN = ppu.tN]_vars

(***************************************************************************)
(* The palette cache, sprite evaluation and the sprite-zero hit.           *)
(***************************************************************************)
\* the four colours of palette palette_id, read from palette RAM as it is
FreshDecode(p, is_sprite, palette_id) ==
    [ i \in 1..4 |->
        DEFAULT_NES_PALETTE[
            (vram_read(p.vram, PALETTE_START + 16 * is_sprite + 4 * palette_id + i - 1)
                 % 64) + 1] ]

CacheFresh(p) ==
    \A is_sprite \in 0..1, palette_id \in 0..3 :
        p.palette_cache[is_sprite][palette_id] # None
            => p.palette_cache[is_sprite][palette_id]
                   = FreshDecode(p, is_sprite, palette_id)

\* two decode_palette calls in a row return the same colours
DecodeTwice(p) ==
    \A is_sprite \in 0..1, palette_id \in 0..3 :
        decode_palette(decode_palette(p, palette_id, is_sprite).p,
                       palette_id, is_sprite).palette
            = decode_palette(p, palette_id, is_sprite).palette

\* C16: after every step each filled palette-cache entry is what a fresh
\* decode of palette RAM gives, two decode_palette calls in a row return
\* equal results, and a DATA write made with ppu_addr at or above the start
\* of the palette leaves the whole cache empty.
C16_PaletteCache ==
    [][/\ CacheFresh(ppu')
       /\ DecodeTwice(ppu')
       /\ (WriteOf(PPU_DATA) /\ ppu.ppu_addr >= PALETTE_START)
             => ppu'.palette_cache = EmptyPaletteCache]_vars

\* a byte was stored in the background palette after the cache had been
\* filled, and the entry filled again since holds the new colour
C16_Witness ==
    /\ script.name = "hit" /\ script.todo = <<>> /\ script.later = <<>>
    /\ vram_read(ppu.vram, PALETTE_START + 1) = 33
    /\ ppu.palette_cache[0][0] # None
    /\ ppu.palette_cache[0][0][2] = DEFAULT_NES_PALETTE[34]
    /\ ppu.palette_cache[0][0][2] # DEFAULT_NES_PALETTE[1]

\* the sprite height the stored CTRL selects
HeightOf(ctrl) == IF (ctrl \div 32) % 2 = 1 THEN 16 ELSE 8

\* the OAM address of the n-th entry in scan order
ScanAddr(p, n) == (p.oam_addr_held + 4 * n) % 256

\* the scan positions of the OAM entries that cover line
Covering(p, line) ==
    { n \in 0..63 : /\ p.oam[ScanAddr(p, n)] <= line
                    /\ line < p.oam[ScanAddr(p, n)] + HeightOf(p.ppu_ctrl) }

\* the i-th covering entry in scan order
NthCovering(p, line, i) ==
    CHOOSE n \in Covering(p, line) :
        Cardinality({m \in Covering(p, line) : m < n}) = i - 1

\* the OAM addresses of the first min(8, k) covering entries, in scan order
FirstCovering(p, line, k) ==
    [ i \in 1..(IF k < 8 THEN k ELSE 8) |-> ScanAddr(p, NthCovering(p, line, i)) ]

\* the step is the dot 257 of a visible line with rendering on
EvaluationStep ==
    /\ DotStep
    /\ ppu.pixel = 257
    /\ ppu.line <= 239
    /\ BitAnd(ppu.ppu_mask, RENDERING_ENABLED_MASK) > 0

EvaluatedAs(p, q, line, k) ==
    /\ q.active_sprites = FirstCovering(p, line, k)
    /\ Len(q.active_sprites) <= 8
    /\ q.sprite_overflow = (p.sprite_overflow \/ k >= 9)

\* C19: sprite evaluation at dot 257 of line L captures, in scan order from
\* oam_addr_held, the first min(8, k) of the k OAM entries with
\* sprite_y <= L + 1 < sprite_y + height, never more than 8, and sets
\* sprite_overflow when k >= 9 and only then; with 9 sprites covering line
\* 50, after dot 257 of line 49 sprite_overflow is set and 8 are captured.
C19_SpriteEvaluation ==
    [][/\ EvaluationStep
             => EvaluatedAs(ppu, ppu', ppu.line + 1,
                            Cardinality(Covering(ppu, ppu.line + 1)))
       /\ ( /\ script.name = "overflow" /\ script.v = 50
            /\ EvaluationStep /\ ppu.line = 49 )
             => /\ Cardinality(Covering(ppu, 50)) = 9
                /\ ppu'.sprite_overflow
                /\ Len(ppu'.active_sprites) = 8]_vars

\* nine sprites cover line 50 and the scan starts at entry 2: after dot 257
\* of line 49 the entries 2 to 8 and 0 are captured, entry 1 is not, and
\* sprite_overflow is set; it was not set one line earlier
C19_Witness ==
    /\ script.name = "overflow" /\ script.v = 50 /\ script.addr = 8
    /\ ppu.line = 49 /\ ppu.pixel = 258
    /\ ppu.sprite_overflow
    /\ ppu.active_sprites = <<8, 12, 16, 20, 24, 28, 32, 0>>

\* the slots of the captured sprites that have an opaque pixel at the dot
\* the engine is about to render
OpaqueSlots(p) ==
    { i \in 0..(Len(p.active_sprites) - 1) :
        /\ p.oam[p.active_sprites[i + 1] + 3] <= p.pixel - 1
        /\ p.pixel - 1 < p.oam[p.active_sprites[i + 1] + 3] + 8
        /\ p.sprite_pattern[i][p.pixel - 1 - p.oam[p.active_sprites[i + 1] + 3]] # None }

\* the OAM address of the top opaque sprite: the one of lowest slot
TopOpaqueAddr(p) ==
    p.active_sprites[(CHOOSE i \in OpaqueSlots(p) : \A j \in OpaqueSlots(p) : i <= j) + 1]

\* the background latches as they are when the dot's pixel is read
LatchesAtDot(p) ==
    IF (p.pixel - 1) % 8 = 0 /\ p.pixel > 1
    THEN fill_bkg_latches(shift_bkg_latches(p), p.line, p.col + 1)
    ELSE p

\* C20: sprite_zero_hit becomes true at a dot only if the top opaque sprite
\* at that dot, the captured sprite of lowest slot with an opaque pixel
\* there, has OAM address 0 and the background pixel there is opaque.
C20_SpriteZeroHit ==
    [][(~ppu.sprite_zero_hit /\ ppu'.sprite_zero_hit)
         => /\ OpaqueSlots(ppu) # {}
            /\ TopOpaqueAddr(ppu) = 0
            /\ get_bkg_pixel(LatchesAtDot(ppu)) # ppu.transparent_color]_vars

(***************************************************************************)
(* Where and how long the sprite-zero hit is set.                          *)
(***************************************************************************)
\* the step sets sprite_zero_hit
HitSet == ~ppu.sprite_zero_hit /\ ppu'.sprite_zero_hit

\* the left-8 sprite mask or the left-8 background mask hides column
\* pixel - 1
Left8Hidden(p) ==
    /\ p.pixel - 1 < 8
    /\ \/ (p.ppu_mask \div 4) % 2 = 0
       \/ (p.ppu_mask \div 2) % 2 = 0

\* C21: sprite_zero_hit is never set at a dot outside 1..255, so not at dot
\* 256, and never at a dot 1..8 that the left-8 sprite mask or the left-8
\* background mask hides.
C21_HitDots ==
    [][HitSet => /\ 1 <= ppu.pixel /\ ppu.pixel <= 255
                 /\ ~Left8Hidden(ppu)]_vars

\* the step processes dot 1 of the pre-render line
ClearDot == DotStep /\ ppu.line = 261 /\ ppu.pixel = 1

\* C22: once sprite_zero_hit is true it stays true through every register
\* read and write, STATUS reads among them, and every tick, until dot 1 of
\* line 261 is processed, which clears it together with sprite_overflow and
\* in_vblank.
C22_HitPersists ==
    [][/\ (ppu.sprite_zero_hit /\ ~ClearDot) => ppu'.sprite_zero_hit
       /\ ClearDot => /\ ~ppu'.sprite_zero_hit
                      /\ ~ppu'.sprite_overflow
                      /\ ~ppu'.in_vblank]_vars

\* the hit set on line 1 is still set at dot 1 of line 261, two STATUS
\* reads and the start of vblank later
C22_Witness ==
    /\ script.name = "long" /\ script.later = <<>> /\ script.todo = <<>>
    /\ ppu.line = 261 /\ ppu.pixel = 1
    /\ ppu.sprite_zero_hit /\ ppu.sprite_overflow
    /\ op.name = "run_cycles"

(***************************************************************************)
(* Compositing of the sprite and background pixels.                        *)
(***************************************************************************)
\* the engine is about to render a visible dot with sprite rendering on and
\* not masked in the left 8 columns, from captured sprites whose x byte is
\* inside OAM
SpriteDot(p) ==
    /\ p.line <= 239 /\ RenderingEnabled(p)
    /\ 0 < p.pixel /\ p.pixel <= 256
    /\ BitAnd(p.ppu_mask, RENDER_SPRITES_MASK) # 0
    /\ ~(p.pixel - 1 < 8 /\ bit_low(p.ppu_mask, RENDER_LEFT8_SPRITES_BIT))
    /\ p.has_active_sprites
    /\ \A k \in 1..Len(p.active_sprites) : p.active_sprites[k] + 3 < OAM_SIZE_BYTES

\* the top sprite: the lowest slot among the captured sprites covering the
\* dot with an opaque pixel
TopSlot(p) == CHOOSE i \in OpaqueSlots(p) : \A j \in OpaqueSlots(p) : i <= j

\* the pixel of the sprite in slot i at the dot
SlotPixel(p, i) == p.sprite_pattern[i][p.pixel - 1 - p.oam[p.active_sprites[i + 1] + 3]]

\* the sprite pixel is in front: there is a top sprite, and its priority bit
\* is 0 or the background pixel is transparent
SpriteInFront(p, bkg_pixel) ==
    /\ OpaqueSlots(p) # {}
    /\ \/ ~p.sprite_bkg_priority[TopSlot(p)]
       \/ bkg_pixel = p.transparent_color

Composed(p, bkg_pixel) ==
    IF SpriteInFront(p, bkg_pixel) THEN SlotPixel(p, TopSlot(p)) ELSE bkg_pixel

\* the universal background colour that stands in for a transparent pixel
UniversalColour(p) == decode_palette(p, 0, 0).palette[1]

ComposedAt(q) ==
    LET c == Composed(q, get_bkg_pixel(q))
    IN  overlay_sprites(q, get_bkg_pixel(q)).out
            = IF c # q.transparent_color THEN c ELSE UniversalColour(q)

\* C23: at a visible dot with sprite rendering enabled and not left-8
\* masked, the top sprite is the lowest slot among the captured sprites
\* covering the dot with an opaque pixel; the composed output is that
\* sprite's pixel if and only if a top sprite exists and its priority bit is
\* 0 or the background pixel is transparent, and the background pixel
\* otherwise.
C23_Compositing == SpriteDot(ppu) => ComposedAt(LatchesAtDot(ppu))

\* sprite 0 is behind the background and on top of sprite 1 and of the
\* sprites at x = 0: at x = 6, where all eight captured sprites are opaque
\* and the left-8 mask hides the background, the pixel of sprite 0 shows
C23_Witness ==
    /\ script.name = "layer" /\ script.addr = 32 /\ script.v = 28
    /\ ppu.line = 1 /\ ppu.pixel = 7
    /\ SpriteDot(ppu)
    /\ Cardinality(OpaqueSlots(ppu)) = 8
    /\ TopSlot(ppu) = 0
    /\ ppu.sprite_bkg_priority[0]
    /\ get_bkg_pixel(ppu) = ppu.transparent_color
    /\ overlay_sprites(ppu, get_bkg_pixel(ppu)).out = SlotPixel(ppu, 0)
    /\ SlotPixel(ppu, 0) # SlotPixel(ppu, 1)

(***************************************************************************)
(* What reaches the screen.                                                *)
(***************************************************************************)
\* the engine is about to process a dot 1..256 of a visible line with
\* rendering enabled
RenderDot(p) ==
    /\ p.line <= 239 /\ RenderingEnabled(p)
    /\ 0 < p.pixel /\ p.pixel <= 256

\* C24: at every visible dot 1..256 of a visible line with rendering
\* enabled a pixel is written to the screen, a transparent final pixel as
\* the universal background colour, also when sprite rendering is disabled
\* or the dot is left-8 sprite-masked.
C24_TransparentEmitted ==
    (RenderDot(ppu) /\ ~VisibleDot(ppu).exc)
        => /\ VisibleDot(ppu).emit # None
           /\ get_bkg_pixel(LatchesAtDot(ppu)) = ppu.transparent_color
                  /\ BitAnd(ppu.ppu_mask, RENDER_SPRITES_MASK) = 0
              => VisibleDot(ppu).emit[3] = UniversalColour(ppu)

(***************************************************************************)
(* 8x16 sprites.                                                           *)
(***************************************************************************)
\* the pattern line _fill_sprite_latches leaves for an 8x16 sprite at OAM
\* address address, sprite_line lines below its top: the pattern table is
\* the one CTRL's sprite-table bit selects; bit 0 of the tile index is masked
\* off; the line is flipped as 15 - line; a line >= 8 is line - 8 of the
\* next tile
TallPattern(p, address, sprite_line) ==
    LET attribs == p.oam[BitAnd(address + 2, 255)]
        raw_tile == p.oam[BitAnd(address + 1, 255)]
        fline == IF bit_high(attribs, 7) THEN 15 - sprite_line ELSE sprite_line
        table_base == BoolInt(BitAnd(p.ppu_ctrl, SPRITE_PATTERN_TABLE_MASK) > 0) * 4096
        tile_ix == (raw_tile - (raw_tile % 2)) + (IF fline >= 8 THEN 1 ELSE 0)
        tile_base == table_base + tile_ix * PATTERN_SIZE_BYTES
        lo == vram_read(p.vram, tile_base + (fline % 8))
        hi == vram_read(p.vram, tile_base + 8 + (fline % 8))
        palette == decode_palette(p, BitAnd(attribs, 3), 1).palette
    IN  [k \in 0..7 |->
            LET x == IF bit_high(attribs, 6) THEN k ELSE 7 - k
                c == BoolInt(bit_high(hi, x)) * 2 + BoolInt(bit_high(lo, x))
            IN  IF c # 0 THEN palette[c + 1] ELSE None]

\* C25: for 8x16 sprites the prefetch takes the pattern table from bit 0 of
\* the sprite's tile index, not from CTRL's sprite-table bit, masks bit 0
\* off the tile index, flips the sprite line as 15 - line and reads a line
\* >= 8 from the next tile at line - 8: each captured sprite's pattern line
\* is the one the engine would read with bit 0 of the sprite's tile index in
\* the place of CTRL's sprite-table bit.
C25_TallSprites ==
    [][(EvaluationStep /\ BitAnd(ppu.ppu_ctrl, SPRITE_SIZE_MASK) > 0)
          => \A i \in 1..Len(ppu'.active_sprites) :
                LET address == ppu'.active_sprites[i]
                    tile == ppu.oam[BitAnd(address + 1, 255)]
                    claimed == [ppu EXCEPT !.ppu_ctrl =
                                   @ - BitAnd(@, SPRITE_PATTERN_TABLE_MASK)
                                     + SPRITE_PATTERN_TABLE_MASK * (tile % 2)]
                IN  ppu'.sprite_pattern[i - 1]
                        = TallPattern(claimed, address,
                                      ppu.line + 1 - ppu.oam[address])]_vars

(***************************************************************************)
(* What run_cycles returns.                                                *)
(***************************************************************************)
\* the last call was run_cycles and it has returned
RunReturned == op.name = "run_cycles" /\ pending = 0 /\ ~raised

\* a frame end was processed since the last call was made
FrameEndedInCall == ppu.frames_since_reset # op.frames

\* the step processed a frame end: frames_since_reset is one more and the
\* raster and the frame's dot count are back at 0
FrameEndProcessed ==
    /\ ppu'.frames_since_reset = ppu.frames_since_reset + 1
    /\ ppu'.line = 0 /\ ppu'.pixel = 0
    /\ ppu'.row = 0 /\ ppu'.col = 0
    /\ ppu'.cycles_since_frame = 0

\* C26: run_cycles(n) returns true if and only if a frame end was processed
\* during that call, that is frames_since_reset was incremented and line,
\* pixel, row, col and cycles_since_frame were reset to 0; it returns false
\* otherwise, also for n = 0.
C26_ReturnsFrameEnd ==
    /\ [](RunReturned => ret = BoolInt(FrameEndedInCall))
    /\ [][FrameChange => FrameEndProcessed]_vars

\* a call has returned true with the raster back at the start of frame 1
C26_Witness ==
    /\ RunReturned /\ ret = 1
    /\ op.frames = 0 /\ ppu.frames_since_reset = 1
    /\ ppu.line = 0 /\ ppu.pixel = 0 /\ ppu.cycles_since_frame = 0

(***************************************************************************)
(* The held OAM address.                                                   *)
(***************************************************************************)
\* the step processes dot 65 of line 0
HoldStep == DotStep /\ ppu.line = 0 /\ ppu.pixel = 65

\* the step processes dot 257 of the pre-render line, where the sprites of
\* line 0 are evaluated
PreRenderEvaluation == DotStep /\ ppu.line = 261 /\ ppu.pixel = 257

\* the captured sprites of q are those the scan from p's held address finds
\* for line
ScannedFromHeld(p, q, line) ==
    q.active_sprites = FirstCovering(p, line, Cardinality(Covering(p, line)))

\* C27: oam_addr_held changes only when dot 65 of line 0 is processed, where
\* it takes the value oam_addr has at that dot, whether or not rendering is
\* enabled; OAMADDR and OAMDATA writes leave it unchanged, and every sprite
\* evaluation starts its scan at oam_addr_held.
C27_HeldAddress ==
    [][/\ ppu'.oam_addr_held # ppu.oam_addr_held => HoldStep
       /\ HoldStep => ppu'.oam_addr_held = ppu.oam_addr
       /\ EvaluationStep => ScannedFromHeld(ppu, ppu', ppu.line + 1)
       /\ PreRenderEvaluation => ScannedFromHeld(ppu, ppu', 0)]_vars

\* in frame 1 the held address has just moved from 0 to 1, where an OAMDATA
\* write of frame 0 had left OAMADDR; the sprites captured on the pre-render
\* line in between were scanned from 0
C27_Witness ==
    /\ script.name = "long"
    /\ ppu.frames_since_reset = 1 /\ ppu.line = 0 /\ ppu.pixel = 66
    /\ ppu.oam_addr = 1 /\ ppu.oam_addr_held = 1
    /\ ppu.active_sprites = <<4, 8, 12, 16, 20, 24, 28, 32>>

(***************************************************************************)
(* The two stages of the background latches.                               *)
(***************************************************************************)
\* the dot of the last register call of the plan a script was started from
LastCallDot(s) ==
    LET plan == CHOOSE pl \in Plans :
                    /\ pl.name = s.name /\ pl.ctrl = s.ctrl
                    /\ pl.addr = s.addr /\ pl.v = s.v
    IN  plan.later[Len(plan.later)].at

\* every register call of the plan has been made, the last one before dot
\* was processed
QuietSince(s, dot) ==
    /\ s.name # "none"
    /\ s.todo = <<>> /\ s.later = <<>>
    /\ LastCallDot(s) <= dot

\* stage i of the latches holds what fill_bkg_latches fetches for (line, col)
StageHolds(p, i, line, col) ==
    /\ p.pattern_lo[i] = fill_bkg_latches(p, line, col).pattern_lo[1]
    /\ p.pattern_hi[i] = fill_bkg_latches(p, line, col).pattern_hi[1]
    /\ p.palette[i] = fill_bkg_latches(p, line, col).palette[1]

\* the column of the tile under dot pixel
ColumnOf(pixel) == (pixel - 1) \div 8

\* dot p.pixel - 1 in 1..256 of a visible line has just been processed with
\* rendering enabled since dot 321 of the line before: of line p.line - 1,
\* or, for line 0 of a frame after the first, of the pre-render line 261 (no
\* register call was made from that dot of frame 0 on)
AfterRenderedDot(p) ==
    /\ p.line <= 239
    /\ p.line = 0 => p.frames_since_reset >= 1
    /\ 2 <= p.pixel /\ p.pixel <= 257
    /\ RenderingEnabled(p)
    /\ QuietSince(script, LineDot(IF p.line = 0 THEN 261 ELSE p.line - 1) + 321)

\* dot 329 of a visible line or of the pre-render line 261 has been
\* processed with rendering enabled since dot 321 of that line
AfterLeadIn(p) ==
    /\ p.line <= 239 \/ p.line = 261
    /\ 330 <= p.pixel
    /\ RenderingEnabled(p)
    /\ QuietSince(script, LineDot(p.line) + 321)

\* C28: with rendering enabled from dot 321 of the preceding line on (of the
\* pre-render line 261 for line 0), at every dot p in 1..256 of a visible
\* line the current stage of the background latches holds the tile fetched
\* for column (p - 1) div 8 of the line and the next stage the tile for
\* column (p - 1) div 8 + 1: the shift comes before the fetch of the same
\* dot, and the lead-in fetches at dots 321 and 329 are for columns 0 and 1
\* of the next line (of line 0 when they are made on line 261).
C28_BkgLatches ==
    /\ AfterRenderedDot(ppu)
          => /\ StageHolds(ppu, 0, ppu.line, ColumnOf(ppu.pixel - 1))
             /\ StageHolds(ppu, 1, ppu.line, ColumnOf(ppu.pixel - 1) + 1)
    /\ AfterLeadIn(ppu)
          => /\ StageHolds(ppu, 0, IF ppu.line = 261 THEN 0 ELSE ppu.line + 1, 0)
             /\ StageHolds(ppu, 1, IF ppu.line = 261 THEN 0 ELSE ppu.line + 1, 1)

\* dot 17 of line 0 of frame 1 has been processed, the lead-in to the line
\* having been fetched on line 261 of frame 0: the current stage holds line
\* 0 of tile 2 and the next stage line 0 of tile 3 of the row
C28_Witness ==
    /\ script.name = "tiles"
    /\ ppu.frames_since_reset = 1
    /\ ppu.line = 0 /\ ppu.pixel = 18
    /\ AfterRenderedDot(ppu)
    /\ ppu.pattern_lo[0] = 255 - TilePatterns[3]
    /\ ppu.pattern_lo[1] = 255 - TilePatterns[4]

(***************************************************************************)
(* What the overlay reads.                                                 *)
(***************************************************************************)
\* the engine is about to render a dot whose overlay goes through the
\* captured sprites
OverlaysSprites(p) ==
    /\ RenderDot(p)
    /\ BitAnd(p.ppu_mask, RENDER_SPRITES_MASK) # 0
    /\ ~(p.pixel - 1 < 8 /\ bit_low(p.ppu_mask, RENDER_LEFT8_SPRITES_BIT))

\* C29: the per-dot overlay never reads the captured-sprite list before a
\* sprite evaluation has defined it: with sprite rendering enabled through
\* MASK right after reset, ticking through line 0 of frame 0 raises no
\* exception out of run_cycles.
C29_ListDefined ==
    /\ OverlaysSprites(ppu) => ppu.has_active_sprites
    /\ ~(raised /\ ~ppu.has_active_sprites)

\* the index of the x byte of every captured sprite is inside OAM
XIndexesInRange(p) ==
    \A k \in 1..Len(p.active_sprites) :
        /\ 0 <= p.active_sprites[k] + 3
        /\ p.active_sprites[k] + 3 < OAM_SIZE_BYTES

\* C30: for every value of oam_addr_held, multiples of 4 or not, every OAM
\* read of sprite evaluation, pattern prefetch and the per-dot overlay uses
\* an index within 0..255, so that no out-of-range OAM access occurs during
\* run_cycles.
C30_OamIndexes ==
    /\ (OverlaysSprites(ppu) /\ ppu.has_active_sprites) => XIndexesInRange(ppu)
    /\ ~(raised /\ ppu.has_active_sprites)

(***************************************************************************)
(* The width of the VRAM address.                                          *)
(***************************************************************************)
\* C31: after any sequence of ADDR writes, DATA reads and DATA writes
\* ppu_addr is a 16-bit value, 0 <= ppu_addr <= 0xFFFF: the auto-increment
\* by 1 or 32 wraps and never produces an address above 0xFFFF.
C31_AddrSixteenBit == 0 <= ppu.ppu_addr /\ ppu.ppu_addr <= 65535

(***************************************************************************)
(* The dot counters.                                                       *)
(***************************************************************************)
\* the counters of the raster and of the run
Counters(p) ==
    << p.line, p.pixel, p.cycles_since_reset, p.cycles_since_frame,
       p.frames_since_reset >>

\* the step is a register read or write
RegisterStep == op'.name \in {"read", "write"}

\* the dots of the frame that lie before the dot the engine is at
FrameDots(p) == PIXELS_PER_LINE * p.line + p.pixel

\* C32: run_cycles(n) increases cycles_since_reset by exactly n, and at
\* every dot boundary cycles_since_frame = 341 * line + pixel, on even and
\* odd frames alike and whether or not rendering is enabled; register reads
\* and writes change none of line, pixel, cycles_since_reset,
\* cycles_since_frame and frames_since_reset.
C32_DotCounters ==
    /\ [](/\ RunReturned => ppu.cycles_since_reset = op.due
          /\ ppu.cycles_since_frame = FrameDots(ppu))
    /\ [][RegisterStep => Counters(ppu') = Counters(ppu)]_vars

\* a call has returned with the engine at the last dot of line 261 of the
\* odd frame 1, 261 * 341 + 339 dots into the frame
C32_Witness ==
    /\ RunReturned /\ ret = 0
    /\ ppu.frames_since_reset = 1
    /\ ppu.line = 261 /\ ppu.pixel = 339
    /\ ppu.cycles_since_frame = 261 * 341 + 339
    /\ ppu.cycles_since_reset = 262 * 341 + 261 * 341 + 339
    /\ op.due = ppu.cycles_since_reset

====
